---- MODULE Spec2Model ----
(***************************************************************************)
(* Model of the Marlin execution core:                                     *)
(*   - lib/marlin.js (src/unnamed/part_000): the job/task store client     *)
(*     (read-modify-write of job records, cascading job delete, taskDone)  *)
(*   - lib/agent/lackey.js: the per-zone task execution driver             *)
(* Each subsystem has its own specification over its own variables.        *)
(***************************************************************************)
EXTENDS Integers, Sequences, FiniteSets, TLC

(***************************************************************************)
(* Bounds                                                                  *)
(***************************************************************************)
NCalls == 2        \* concurrent read-modify-write calls on the job record
MaxRetries == 1    \* largest "retries" of a caller-supplied retry policy
NTaskCalls == 2    \* concurrent taskDone calls on the task
MaxOut == 2        \* largest output count given to taskDone
NDels == 2         \* jobDelete runs on the job (first run, re-invocation)
MaxRecs == 2       \* most records of the job in one child bucket
MaxLimit == 2      \* largest page limit passed in options (0: none passed)
MaxTasks == 2      \* tasks the parent agent dispatches to the zone
MaxBatch == 3      \* most input keys in one task descriptor
MaxBatches == 2    \* batches of keys the agent hands out per reduce task
MaxSends == 3      \* times one request to the parent agent is made
MaxTicks == 4      \* liveness ticks during one task
MaxCode == 2       \* largest exit code of the user command
MaxTaskRecs == 3   \* most task records of the job whose log is fetched
PageLimit == 2     \* records per query; stands for ml_limit (1000)
MaxPages == 3      \* task queries issued by one log fetch
MaxCreates == 2    \* jobCreate calls naming the job id
MaxLen == 2        \* longest string given as a jobsList option
MaxAdds == 2       \* jobAddKey calls naming the job being deleted

(***************************************************************************)
(* State                                                                   *)
(***************************************************************************)
\* Job record read-modify-write
VARIABLES
    jobExists,   \* the job bucket holds a record for the job id
    jobVal,      \* its value
    jobEtag,     \* its _etag (changes on every write)
    calls,       \* per call: operation, retry policy, position, snapshot
    lost,        \* history: stamps of attempts whose conditional write lost
    writes       \* history: successful writes, [by |-> stamp, etag |-> token used]

jobVars == <<jobExists, jobVal, jobEtag, calls, lost, writes>>

\* taskDone
VARIABLES
    taskExists,  \* the task bucket holds the task record
    taskRec,     \* its value: state, result, nOutputs, and who finalized it
    taskEtag,    \* its _etag
    tcalls,      \* per taskDone call: arguments, position, fetched record
    errorRecs,   \* error bucket: number of records created, per call
    outputRecs   \* taskoutput bucket: number of records created, per call

taskVars == <<taskExists, taskRec, taskEtag, tcalls, errorRecs, outputRecs>>

\* jobDelete
VARIABLES
    jobPresent,  \* the job bucket holds the record of the job being deleted
    children,    \* per child bucket: number of records with that job id
    dels,        \* per jobDelete run: limit, requests, position, outcome
    added        \* jobAddKey calls made for the job

delVars == <<jobPresent, children, dels, added>>

\* Task execution driver (lackey)
VARIABLES
    proc,              \* "running", "crashed" (uncaught throw) or "exited"
    crashWhy,          \* what ended the process
    mazPipeline,       \* current task pipeline: Undefined or Some(stage)
    mazCurrentTask,    \* current task: Undefined or Some(task descriptor)
    mazErrorSave,      \* error during task processing
    mazExecutor,       \* task executor: Undefined or Some(MarlinExecutor)
    mazExecutorResult, \* task execution result
    mazUserEmitted,    \* whether the user has emitted output
    reqs,              \* mazClientRequests: pending requests to the parent agent
    agent,             \* the parent agent: the task it has pending for this zone
    received,          \* history: number of tasks received by mazTaskFetch
    reports,           \* history: per task, the final reports issued
    batches            \* history: per reduce batch, its drain, commit and poll

drvVars == <<proc, crashWhy, mazPipeline, mazCurrentTask, mazErrorSave,
             mazExecutor, mazExecutorResult, mazUserEmitted, reqs, agent,
             received, reports, batches>>

\* mazParentRequest, one request followed from call to callback
VARIABLES
    preq         \* expected status, position, responses seen, callbacks made

parVars == <<preq>>

\* Liveness heartbeat of the driver
VARIABLES
    mazLivenessPending, \* liveness request pending
    mazLivenessTimeout, \* the liveness interval is set
    liveReqs,           \* per tick: the heartbeat request it made, if any
    liveSkipped         \* history: ticks that sent nothing

liveVars == <<mazLivenessPending, mazLivenessTimeout, liveReqs, liveSkipped>>

\* mazDecodeError applied to one outcome of a task
VARIABLES
    decIn,       \* the pipeline error flag and mazExecutorResult
    decOut       \* Undefined, or Some of what mazTaskReport posts

decVars == <<decIn, decOut>>

\* jobFetchLog
VARIABLES
    logTasks,      \* task bucket: ids of the records with the job's id
    ml_npending,   \* number of pending queries
    ml_ntasks,     \* tasks returned by current query
    ml_req_job,    \* job query: "undefined", "open", "recorded", "ended", "failed"
    ml_req_tasks,  \* task query: Undefined or Some([left, state])
    logEvents      \* history: events emitted, queries issued

logVars == <<logTasks, ml_npending, ml_ntasks, ml_req_job, ml_req_tasks,
             logEvents>>

\* jobCreate
VARIABLES
    creates      \* number of jobCreate calls made with the job's id

crtVars == <<creates>>

\* jobsList
VARIABLES
    lstIn,       \* the "options" argument
    lstOut       \* the findObjects query issued: Undefined or Some(query)

lstVars == <<lstIn, lstOut>>

vars == <<jobVars, taskVars, delVars, drvVars, parVars, liveVars, decVars,
          logVars, crtVars, lstVars>>

otherThanJob ==
    <<taskVars, delVars, drvVars, parVars, liveVars, decVars, logVars,
      crtVars, lstVars>>
otherThanTask ==
    <<jobVars, delVars, drvVars, parVars, liveVars, decVars, logVars,
      crtVars, lstVars>>
otherThanDel ==
    <<jobVars, taskVars, drvVars, parVars, liveVars, decVars, logVars,
      crtVars, lstVars>>
otherThanDrv ==
    <<jobVars, taskVars, delVars, parVars, liveVars, decVars, logVars,
      crtVars, lstVars>>
otherThanPar ==
    <<jobVars, taskVars, delVars, drvVars, liveVars, decVars, logVars,
      crtVars, lstVars>>
otherThanLive ==
    <<jobVars, taskVars, delVars, drvVars, parVars, decVars, logVars,
      crtVars, lstVars>>
otherThanDec ==
    <<jobVars, taskVars, delVars, drvVars, parVars, liveVars, logVars,
      crtVars, lstVars>>
otherThanLog ==
    <<jobVars, taskVars, delVars, drvVars, parVars, liveVars, decVars,
      crtVars, lstVars>>
otherThanCrt ==
    <<taskVars, delVars, drvVars, parVars, liveVars, decVars, logVars,
      lstVars>>
otherThanLst ==
    <<jobVars, taskVars, delVars, drvVars, parVars, liveVars, decVars,
      logVars, crtVars>>

Undefined == <<>>
Some(x) == <<x>>
IsDef(v) == v # <<>>
Val(v) == v[1]

(***************************************************************************)
(* Part 1.  Job record read-modify-write (lib/marlin.js)                   *)
(***************************************************************************)
Calls == 1..NCalls
JobOps == {"jobCancel", "jobEndInput", "jobArchiveStart", "jobArchiveDone",
           "jobArchiveHeartbeat"}
Unset == <<>>

\* A job value as jobCreate writes it; "input" is set for a piped job.
NewJobValue(piped) ==
    [input |-> piped, timeCancelled |-> Unset, timeInputDone |-> Unset,
     timeArchiveStarted |-> Unset, timeArchiveDone |-> Unset, wrasse |-> Unset]

\* The value a timestamp field gets: it identifies the attempt that wrote it.
Stamp(c) == <<c, calls[c].attempt>>

\* The mutation functions ("updatef") of the five operations.  The result is
\* [err, val]: err is TRUE when updatef returned an Error.
UpdateFInputIgnored(op, job, stamp) ==
    CASE op = "jobCancel" ->
            [err |-> FALSE, val |-> [job EXCEPT !.timeCancelled = stamp]]
      [] op = "jobEndInput" ->
            [err |-> FALSE, val |-> [job EXCEPT !.timeInputDone = stamp]]
      [] op = "jobArchiveStart" ->
            [err |-> FALSE,
             val |-> [job EXCEPT !.timeArchiveStarted = stamp, !.wrasse = stamp]]
      [] op = "jobArchiveDone" ->
            [err |-> FALSE, val |-> [job EXCEPT !.timeArchiveDone = stamp]]
      [] OTHER ->
            [err |-> FALSE, val |-> job]
UpdateF(op, job, stamp) ==
    CASE op = "jobCancel" ->
            [err |-> FALSE, val |-> [job EXCEPT !.timeCancelled = stamp]]
      [] op = "jobEndInput" ->
            IF job.input
            THEN [err |-> TRUE, val |-> job]
            ELSE [err |-> FALSE, val |-> [job EXCEPT !.timeInputDone = stamp]]
      [] op = "jobArchiveStart" ->
            [err |-> FALSE,
             val |-> [job EXCEPT !.timeArchiveStarted = stamp, !.wrasse = stamp]]
      [] op = "jobArchiveDone" ->
            [err |-> FALSE, val |-> [job EXCEPT !.timeArchiveDone = stamp]]
      [] OTHER ->
            [err |-> FALSE, val |-> job]

\* The value updatef is applied to: a deep copy of the value just read.
UpdateBaseStale(c, job) ==
    IF calls[c].attempt > 1 THEN calls[c].job.value ELSE job.value
UpdateBase(c, job) == job.value

\* The options of the conditional putObject: the etag of the record as read.
NoEtag == <<>>
PutEtagNone(c) == NoEtag
PutEtag(c) == Some(calls[c].job.etag)

\* The store's conditional put: with an etag it succeeds only on the current
\* version of an existing record; without one it always succeeds.
EtagMatches(given) ==
    \/ given = NoEtag
    \/ jobExists /\ Val(given) = jobEtag

\* jobFetchAndUpdate: without options.retry a single attempt is made;
\* with it, mod_retry allows "retries" further attempts.
RetriesAllowedAlways(c) == calls[c].retries + 1
RetriesAllowed(c) == IF calls[c].retry THEN calls[c].retries ELSE 0

\* op.retry(err): another attempt is made for any error while attempts remain.
WillRetry(c) == calls[c].attempt <= RetriesAllowed(c)

IdleCall ==
    [pc |-> "idle", op |-> "jobCancel", retry |-> FALSE, retries |-> 0,
     attempt |-> 0, job |-> [value |-> NewJobValue(FALSE), etag |-> 0],
     newval |-> NewJobValue(FALSE), put |-> "none",
     err |-> "none", rec |-> Undefined, gets |-> 0, puts |-> 0]

JobIdle ==
    /\ jobExists = FALSE
    /\ jobVal = NewJobValue(FALSE)
    /\ jobEtag = 0
    /\ calls = [c \in Calls |-> IdleCall]
    /\ lost = {}
    /\ writes = {}

JobInit ==
    /\ jobExists \in BOOLEAN
    /\ jobVal \in {NewJobValue(p) : p \in BOOLEAN}
    /\ jobEtag = 0
    /\ calls = [c \in Calls |-> IdleCall]
    /\ lost = {}
    /\ writes = {}

\* jobCancel / jobEndInput / jobArchive*: enter jobFetchAndUpdate, which
\* starts the first attempt by issuing getObject.
JobCallStart(c) ==
    /\ calls[c].pc = "idle"
    /\ \E op \in JobOps, r \in BOOLEAN, n \in 0..MaxRetries :
          /\ (~r => n = 0)
          /\ calls' = [calls EXCEPT ![c] =
                [@ EXCEPT !.pc = "get", !.op = op, !.retry = r, !.retries = n,
                          !.attempt = 1]]
    /\ UNCHANGED <<jobExists, jobVal, jobEtag, lost, writes>>
    /\ UNCHANGED otherThanJob

\* An attempt ended with error e: retry the whole attempt or call back.
AfterErrorDropped(c, e, cur) ==
    IF WillRetry(c)
    THEN [cur EXCEPT !.pc = "get", !.attempt = @ + 1]
    ELSE [cur EXCEPT !.pc = "done", !.err = "none", !.rec = Some(cur.job)]
AfterError(c, e, cur) ==
    IF WillRetry(c)
    THEN [cur EXCEPT !.pc = "get", !.attempt = @ + 1]
    ELSE [cur EXCEPT !.pc = "done", !.err = e, !.rec = Undefined]

\* getObject answers: the callback of jobFetchAndUpdateTry copies the value,
\* applies updatef and issues the conditional putObject.
JobGetReply(c) ==
    /\ calls[c].pc = "get"
    /\ LET cur == [calls[c] EXCEPT !.gets = @ + 1, !.put = "none"] IN
       IF ~jobExists
       THEN calls' = [calls EXCEPT ![c] = AfterError(c, "fetch", cur)]
       ELSE LET job == [value |-> jobVal, etag |-> jobEtag]
                u == UpdateF(cur.op, UpdateBase(c, job), Stamp(c))
            IN IF u.err
               THEN calls' = [calls EXCEPT ![c] =
                        AfterError(c, "update", [cur EXCEPT !.job = job])]
               ELSE calls' = [calls EXCEPT ![c] =
                        [cur EXCEPT !.pc = "put", !.job = job, !.newval = u.val]]
    /\ UNCHANGED <<jobExists, jobVal, jobEtag, lost, writes>>
    /\ UNCHANGED otherThanJob

\* callback(null, job): the record as getObject returned it in this attempt.
CallbackRecordUpdated(cur) == [cur.job EXCEPT !.value = cur.newval]
CallbackRecord(cur) == cur.job

\* putObject answers: the store applies the write iff the etag matches.
JobPutReply(c) ==
    /\ calls[c].pc = "put"
    /\ LET cur == [calls[c] EXCEPT !.puts = @ + 1] IN
       IF EtagMatches(PutEtag(c))
       THEN /\ jobExists' = TRUE
            /\ jobVal' = cur.newval
            /\ jobEtag' = jobEtag + 1
            /\ writes' = writes \cup {[by |-> Stamp(c), etag |-> cur.job.etag]}
            /\ calls' = [calls EXCEPT ![c] =
                  [cur EXCEPT !.pc = "done", !.put = "ok", !.err = "none",
                              !.rec = Some(CallbackRecord(cur))]]
            /\ lost' = lost
       ELSE /\ lost' = lost \cup {Stamp(c)}
            /\ calls' = [calls EXCEPT ![c] =
                  AfterError(c, "conflict", [cur EXCEPT !.put = "conflict"])]
            /\ UNCHANGED <<jobExists, jobVal, jobEtag, writes>>
    /\ UNCHANGED otherThanJob

JobNext ==
    \E c \in Calls : JobCallStart(c) \/ JobGetReply(c) \/ JobPutReply(c)

(***************************************************************************)
(* Part 2.  taskDone (lib/marlin.js): fetch, write others, write task      *)
(***************************************************************************)
TCalls == 1..NTaskCalls
QueueConcurrency == 10

Min(a, b) == IF a < b THEN a ELSE b

DispatchedTask ==
    [state |-> "dispatched", result |-> "none", nOutputs |-> Undefined, by |-> 0]
DoneTask ==
    [state |-> "done", result |-> "ok", nOutputs |-> Some(0), by |-> 0]

IdleTaskCall ==
    [pc |-> "idle", nout |-> Undefined,
     record |-> [value |-> DispatchedTask, etag |-> 0],
     pending |-> 0, inflight |-> 0, err |-> "none", afterDone |-> FALSE,
     done |-> FALSE, callbacks |-> <<>>]

TaskIdle ==
    /\ taskExists = FALSE
    /\ taskRec = DispatchedTask
    /\ taskEtag = 0
    /\ tcalls = [c \in TCalls |-> IdleTaskCall]
    /\ errorRecs = [c \in TCalls |-> 0]
    /\ outputRecs = [c \in TCalls |-> 0]

TaskInit ==
    /\ taskExists \in BOOLEAN
    /\ taskRec \in {DispatchedTask, DoneTask}
    /\ taskEtag = 0
    /\ tcalls = [c \in TCalls |-> IdleTaskCall]
    /\ errorRecs = [c \in TCalls |-> 0]
    /\ outputRecs = [c \in TCalls |-> 0]

TaskSucceeded(c) == tcalls[c].pc = "done" /\ tcalls[c].err = "none"

\* taskDone(taskid, nout, ...): nout is undefined (failure) or a count.
\* afterDone records that another call had already completed successfully.
TaskDoneStart(c) ==
    /\ tcalls[c].pc = "idle"
    /\ \E nout \in {Undefined} \cup {Some(n) : n \in 0..MaxOut} :
          tcalls' = [tcalls EXCEPT ![c] =
              [@ EXCEPT !.pc = "fetch", !.nout = nout,
                        !.afterDone = \E d \in TCalls : TaskSucceeded(d)]]
    /\ UNCHANGED <<taskExists, taskRec, taskEtag, errorRecs, outputRecs>>
    /\ UNCHANGED otherThanTask

\* taskDoneFetch: the check that refuses a task that is already done.
AlreadyDoneNever(record) == FALSE
AlreadyDone(record) == record.value.state = "done"

\* taskDoneFetch's getObject callback, followed by the synchronous start of
\* taskDoneWriteOthers: one error record, nothing, or nout queued outputs of
\* which at most QueueConcurrency are written at a time.  "callbacks" lists
\* the calls of taskDoneWriteOthers' callback, in order.
TaskFetchReply(c) ==
    /\ tcalls[c].pc = "fetch"
    /\ LET cur == tcalls[c]
           record == [value |-> taskRec, etag |-> taskEtag]
       IN tcalls' = [tcalls EXCEPT ![c] =
            IF ~taskExists
            THEN [cur EXCEPT !.pc = "done", !.err = "fetch"]
            ELSE IF AlreadyDone(record)
            THEN [cur EXCEPT !.pc = "done", !.err = "alreadydone"]
            ELSE IF cur.nout = Undefined
            THEN [cur EXCEPT !.pc = "error", !.record = record]
            ELSE IF Val(cur.nout) = 0
            THEN [cur EXCEPT !.pc = "write", !.record = record,
                             !.callbacks = <<"ok">>]
            ELSE [cur EXCEPT !.pc = "outputs", !.record = record,
                      !.inflight = Min(Val(cur.nout), QueueConcurrency),
                      !.pending = Val(cur.nout) - Min(Val(cur.nout), QueueConcurrency)]]
    /\ UNCHANGED <<taskExists, taskRec, taskEtag, errorRecs, outputRecs>>
    /\ UNCHANGED otherThanTask

\* The error record's putObject answers; the stage calls back.
TaskErrorPutReply(c) ==
    /\ tcalls[c].pc = "error"
    /\ errorRecs' = [errorRecs EXCEPT ![c] = @ + 1]
    /\ tcalls' = [tcalls EXCEPT ![c] =
          [@ EXCEPT !.pc = "write", !.callbacks = Append(@, "ok")]]
    /\ UNCHANGED <<taskExists, taskRec, taskEtag, outputRecs>>
    /\ UNCHANGED otherThanTask

\* The error record's putObject fails: the stage calls back with the error
\* and the pipeline ends.
TaskErrorPutFail(c) ==
    /\ tcalls[c].pc = "error"
    /\ tcalls' = [tcalls EXCEPT ![c] =
          [@ EXCEPT !.pc = "done", !.err = "error",
                    !.callbacks = Append(@, "err")]]
    /\ UNCHANGED <<taskExists, taskRec, taskEtag, errorRecs, outputRecs>>
    /\ UNCHANGED otherThanTask

\* One taskoutput putObject answers; subcallback() has the queue start the
\* next pending task, whose worker writes unless "done" is set, and, once
\* the queue is empty, "drain" calls the stage's callback unless "done" is
\* set.
TaskOutputPutReply(c) ==
    /\ tcalls[c].inflight > 0
    /\ outputRecs' = [outputRecs EXCEPT ![c] = @ + 1]
    /\ LET cur == tcalls[c]
           next == IF cur.pending > 0 THEN 1 ELSE 0
           left == cur.inflight - 1 + (IF cur.done THEN 0 ELSE next)
           drained == left = 0 /\ cur.pending - next = 0 /\ ~cur.done
       IN tcalls' = [tcalls EXCEPT ![c] =
            [cur EXCEPT !.inflight = left, !.pending = @ - next,
                        !.pc = IF drained THEN "write" ELSE @,
                        !.callbacks = IF drained THEN Append(@, "ok") ELSE @]]
    /\ UNCHANGED <<taskExists, taskRec, taskEtag, errorRecs>>
    /\ UNCHANGED otherThanTask

\* One taskoutput putObject fails.  The handler calls subcallback() first,
\* with "done" as it was: the queue starts the next pending write and, if
\* this was the last task, "drain" calls the stage's callback without an
\* error, which starts taskDoneWriteTask.  Only then, unless "done" was set
\* by an earlier failure, does the handler call the stage's callback with the
\* error and set "done"; the pipeline hands the error to taskDone's caller.
TaskOutputPutFail(c) ==
    /\ tcalls[c].inflight > 0
    /\ LET cur == tcalls[c]
           next == IF cur.pending > 0 THEN 1 ELSE 0
           left == cur.inflight - 1 + (IF cur.done THEN 0 ELSE next)
           drained == left = 0 /\ cur.pending - next = 0 /\ ~cur.done
           first == ~cur.done
       IN tcalls' = [tcalls EXCEPT ![c] =
            [cur EXCEPT !.inflight = left, !.pending = @ - next,
                        !.done = TRUE,
                        !.pc = IF drained THEN "write"
                               ELSE IF first THEN "done" ELSE @,
                        !.err = IF first THEN "output" ELSE @,
                        !.callbacks =
                            (IF drained THEN Append(@, "ok") ELSE @)
                                \o (IF first THEN <<"err">> ELSE <<>>)]]
    /\ UNCHANGED <<taskExists, taskRec, taskEtag, errorRecs, outputRecs>>
    /\ UNCHANGED otherThanTask

\* taskDoneWriteTask: the task as fetched, marked done.
FinalTaskOk(c) ==
    [state |-> "done", result |-> "ok", nOutputs |-> tcalls[c].nout, by |-> c]
FinalTask(c) ==
    [state |-> "done",
     result |-> IF tcalls[c].nout # Undefined THEN "ok" ELSE "fail",
     nOutputs |-> tcalls[c].nout,
     by |-> c]

\* The etag of taskDoneWriteTask's putObject: that of the record as fetched.
TaskPutEtagNone(c) == NoEtag
TaskPutEtag(c) == Some(tcalls[c].record.etag)

TaskEtagMatches(given) ==
    \/ given = NoEtag
    \/ taskExists /\ Val(given) = taskEtag

\* taskDoneWriteTask's putObject answers.
TaskWriteReply(c) ==
    /\ tcalls[c].pc = "write"
    /\ IF TaskEtagMatches(TaskPutEtag(c))
       THEN /\ taskExists' = TRUE
            /\ taskRec' = FinalTask(c)
            /\ taskEtag' = taskEtag + 1
            /\ tcalls' = [tcalls EXCEPT ![c] = [@ EXCEPT !.pc = "done"]]
       ELSE /\ tcalls' = [tcalls EXCEPT ![c] =
                  [@ EXCEPT !.pc = "done", !.err = "conflict"]]
            /\ UNCHANGED <<taskExists, taskRec, taskEtag>>
    /\ UNCHANGED <<errorRecs, outputRecs>>
    /\ UNCHANGED otherThanTask

TaskNext ==
    \E c \in TCalls :
        \/ TaskDoneStart(c)
        \/ TaskFetchReply(c)
        \/ TaskErrorPutReply(c)
        \/ TaskOutputPutReply(c)
        \/ TaskWriteReply(c)

\* taskDone against a store that may fail the writes of taskDoneWriteOthers.
TaskFailNext ==
    \E c \in TCalls :
        \/ TaskDoneStart(c)
        \/ TaskFetchReply(c)
        \/ TaskErrorPutReply(c)
        \/ TaskErrorPutFail(c)
        \/ TaskOutputPutReply(c)
        \/ TaskOutputPutFail(c)
        \/ TaskWriteReply(c)

(***************************************************************************)
(* Part 3.  jobDelete (lib/marlin.js): cascading delete                    *)
(***************************************************************************)
Dels == 1..NDels
Buckets == {"jobinput", "error", "task", "taskinput", "taskoutput"}
DefaultLimit == 500

\* var limit = (options.options || {}).limit || 500
LimitOfGiven(opt) == opt
LimitOf(opt) == IF opt = 0 THEN DefaultLimit ELSE opt

IdleDel ==
    [pc |-> "idle", limit |-> DefaultLimit, requests |-> Buckets,
     callback_invoked |-> FALSE, result |-> "none", rounds |-> 0,
     callbacks |-> 0]

DelIdle ==
    /\ jobPresent = FALSE
    /\ children = [b \in Buckets |-> 0]
    /\ dels = [d \in Dels |-> IdleDel]
    /\ added = 0

DelInit ==
    /\ jobPresent = TRUE
    /\ children \in [Buckets -> 0..MaxRecs]
    /\ dels = [d \in Dels |-> IdleDel]
    /\ added = 0

\* jobDelete: build the five deleteMany requests and send the first batch.
JobDeleteStart(d) ==
    /\ dels[d].pc = "idle"
    /\ \E opt \in 0..MaxLimit :
          dels' = [dels EXCEPT ![d] =
              [@ EXCEPT !.pc = "batch", !.limit = LimitOf(opt),
                        !.requests = Buckets]]
    /\ UNCHANGED <<jobPresent, children, added>>
    /\ UNCHANGED otherThanDel

\* deleteMany with a limit: the store deletes at most "limit" matching
\* records of the bucket and reports how many it deleted.
DeleteCount(b, limit) == Min(children[b], limit)

\* cb: a bucket that deleted fewer than limit records has none left.
BucketDoneUpTo(count, limit) == count <= limit
BucketDone(count, limit) == count < limit

\* cb: internals_done stays true only if no bucket of the round hit the limit.
InternalsDoneAny(requests, meta, limit) ==
    \E b \in requests : BucketDone(meta[b], limit)
InternalsDone(requests, meta, limit) ==
    \A b \in requests : BucketDone(meta[b], limit)

\* cb: the buckets kept for the next batch request.
NextRequestsAll(requests, meta, limit) == requests
NextRequests(requests, meta, limit) ==
    {b \in requests : ~BucketDone(meta[b], limit)}

\* The store runs one batch request and cb handles its answer: drop the
\* finished buckets, then send the next batch or delete the job record.
JobDeleteBatchReply(d) ==
    /\ dels[d].pc = "batch"
    /\ LET cur == dels[d]
           meta == [b \in cur.requests |-> DeleteCount(b, cur.limit)]
       IN /\ children' = [b \in Buckets |->
                 IF b \in cur.requests THEN children[b] - meta[b]
                 ELSE children[b]]
          /\ dels' = [dels EXCEPT ![d] =
                 [cur EXCEPT
                    !.requests = NextRequests(cur.requests, meta, cur.limit),
                    !.rounds = @ + 1,
                    !.pc = IF InternalsDone(cur.requests, meta, cur.limit)
                           THEN "delobj" ELSE "batch"]]
    /\ UNCHANGED <<jobPresent, added>>
    /\ UNCHANGED otherThanDel

\* A run that has ended keeps its outcome and the number of rounds it made;
\* its locals (limit, requests) are gone with its closure.
Ended(cur, pc, result, invoked) ==
    [IdleDel EXCEPT !.pc = pc, !.result = result, !.rounds = cur.rounds,
                    !.callback_invoked = invoked,
                    !.callbacks = cur.callbacks + (IF invoked THEN 1 ELSE 0)]

\* cb with an error: call back with it, set callback_invoked, return.
BatchFailedGoesOn(cur) ==
    [cur EXCEPT !.result = "error", !.callback_invoked = TRUE,
                !.callbacks = @ + 1]
BatchFailed(cur) == Ended(cur, "done", "error", TRUE)

\* A batch request fails: cb reports the error and the run ends.
JobDeleteBatchError(d) ==
    /\ dels[d].pc = "batch"
    /\ dels' = [dels EXCEPT ![d] = BatchFailed(@)]
    /\ UNCHANGED <<jobPresent, children, added>>
    /\ UNCHANGED otherThanDel

\* deleteObject of the job record answers (an error when it is absent).
JobDeleteObjectReply(d) ==
    /\ dels[d].pc = "delobj"
    /\ jobPresent' = FALSE
    /\ dels' = [dels EXCEPT ![d] =
          Ended(@, "done", IF jobPresent THEN "ok" ELSE "notfound", TRUE)]
    /\ UNCHANGED <<children, added>>
    /\ UNCHANGED otherThanDel

\* The calling process dies while a request is outstanding: the run stops.
JobDeleteCrash(d) ==
    /\ dels[d].pc \in {"batch", "delobj"}
    /\ dels' = [dels EXCEPT ![d] = Ended(@, "crashed", "none", FALSE)]
    /\ UNCHANGED <<jobPresent, children, added>>
    /\ UNCHANGED otherThanDel

DelNext ==
    \E d \in Dels :
        \/ JobDeleteStart(d)
        \/ JobDeleteBatchReply(d)
        \/ JobDeleteBatchError(d)
        \/ JobDeleteObjectReply(d)
        \/ JobDeleteCrash(d)

\* jobAddKey(jobid, key): put one jobinput record for the job under a fresh
\* key; the job record is neither read nor required.
JobAddKey ==
    /\ added < MaxAdds
    /\ children["jobinput"] < MaxRecs
    /\ added' = added + 1
    /\ children' = [children EXCEPT !["jobinput"] = @ + 1]
    /\ UNCHANGED <<jobPresent, dels>>
    /\ UNCHANGED otherThanDel

\* jobDelete while other callers add input keys to the job.
DelAddNext ==
    \/ DelNext
    \/ JobAddKey

\* The steps of jobDelete when the store answers every request.
DelRunNext ==
    \E d \in Dels :
        \/ JobDeleteStart(d)
        \/ JobDeleteBatchReply(d)
        \/ JobDeleteObjectReply(d)

(***************************************************************************)
(* Part 4.  mazParentRequest (lib/agent/lackey.js): requests to the agent  *)
(***************************************************************************)
\* What a request can be answered with: a status code, or 0 for a transport
\* error (an error and no response).
Statuses == {0, 200, 204, 302, 404, 409, 410, 500}

\* expected_code as the callers pass it; 0 stands for undefined.
ExpectedCodes == {0, 200, 204}

\* The client hands the request callback an error for a transport error and
\* for every status from 400 up.
HasErr(status) == status = 0 \/ status >= 400

\* mazParentRequest's request callback: call back without error ("ok"), call
\* back with the error ("error"), or arm the retry timer ("retry").
ParentOutcomeGiveUp(status, expected) ==
    IF ~HasErr(status) /\ status = expected THEN "ok" ELSE "error"
ParentOutcome(status, expected) ==
    IF /\ ~HasErr(status)
       /\ \/ status = expected
          \/ (expected = 0 /\ status >= 200 /\ status < 400)
    THEN "ok"
    ELSE IF status # 0 /\ status >= 400 /\ status # 410 /\ status < 500
    THEN "error"
    ELSE "retry"

ParIdle ==
    preq = [expected |-> 0, pc |-> "idle", sends |-> 0, seen |-> <<>>,
            callbacks |-> <<>>]

\* mazParentRequest was called and made the request.
ParInit ==
    preq \in {[expected |-> e, pc |-> "sent", sends |-> 1, seen |-> <<>>,
               callbacks |-> <<>>] : e \in ExpectedCodes}

\* The request is answered: call back, or set the timer for mazRetryTime.
ParentResponse ==
    /\ preq.pc = "sent"
    /\ \E status \in Statuses :
          LET outcome == ParentOutcome(status, preq.expected) IN
          /\ outcome = "retry" => preq.sends < MaxSends
          /\ preq' = [preq EXCEPT
                        !.seen = Append(@, status),
                        !.pc = IF outcome = "retry" THEN "wait" ELSE "done",
                        !.callbacks = IF outcome = "retry" THEN @
                                      ELSE Append(@, outcome)]
    /\ UNCHANGED otherThanPar

\* The timer fires: mazParentRequest is called again with attempt + 1.
ParentRetryTimer ==
    /\ preq.pc = "wait"
    /\ preq' = [preq EXCEPT !.pc = "sent", !.sends = @ + 1]
    /\ UNCHANGED otherThanPar

ParNext == ParentResponse \/ ParentRetryTimer

(***************************************************************************)
(* Part 5.  Task execution driver (lib/agent/lackey.js)                    *)
(*                                                                         *)
(* The parent agent is modelled by the protocol the file's header states:  *)
(* it answers a task long-poll with the task it has pending for the zone,  *)
(* hands a reduce task's keys out in batches, and moves on to the next     *)
(* task once the current one is reported.                                  *)
(***************************************************************************)
TaskIds == 1..MaxTasks

\* The keys of the seq-th batch of a task, n of them; all keys are distinct.
BatchKeys(seq, n) == [i \in 1..n |-> (seq - 1) * (MaxBatch + 1) + i]

\* Process Executor results: internal error, core flag, signal, exit code.
Signals == {"null", "SIGKILL", "SIGSEGV"}
Codes == 0..MaxCode
AllResults == [error : BOOLEAN, core : BOOLEAN, signal : Signals, code : Codes]

ExecResults ==
    {[error |-> FALSE, core |-> FALSE, signal |-> "null", code |-> 0],
     [error |-> FALSE, core |-> FALSE, signal |-> "null", code |-> 1],
     [error |-> FALSE, core |-> FALSE, signal |-> "SIGKILL", code |-> 1],
     [error |-> FALSE, core |-> TRUE, signal |-> "SIGSEGV", code |-> 1],
     [error |-> TRUE, core |-> FALSE, signal |-> "null", code |-> 1]}

NoAgentTask ==
    [taskId |-> 0, reduce |-> FALSE, remote |-> FALSE, handed |-> 0,
     inputDone |-> FALSE, dispatched |-> 0, answered |-> 0]

\* mazTaskFetch's request, as mazParentRequest records it.
FetchRequest(n) ==
    [kind |-> "fetch", task |-> n, seq |-> 0, wait |-> FALSE,
     arg |-> Undefined, done |-> FALSE]

DrvIdle ==
    /\ proc = "exited"
    /\ crashWhy = "none"
    /\ mazPipeline = Undefined
    /\ mazCurrentTask = Undefined
    /\ mazErrorSave = Undefined
    /\ mazExecutor = Undefined
    /\ mazExecutorResult = Undefined
    /\ mazUserEmitted = FALSE
    /\ reqs = {}
    /\ agent = NoAgentTask
    /\ received = 0
    /\ reports = [t \in TaskIds |-> 0]
    /\ batches = <<>>

\* main(): the server listens and mazTaskFetch issues the first long-poll.
DrvInit ==
    /\ proc = "running"
    /\ crashWhy = "none"
    /\ mazPipeline = Undefined
    /\ mazCurrentTask = Undefined
    /\ mazErrorSave = Undefined
    /\ mazExecutor = Undefined
    /\ mazExecutorResult = Undefined
    /\ mazUserEmitted = FALSE
    /\ reqs = {FetchRequest(0)}
    /\ agent = NoAgentTask
    /\ received = 0
    /\ reports = [t \in TaskIds |-> 0]
    /\ batches = <<>>

taskLocal == <<mazPipeline, mazCurrentTask, mazErrorSave, mazExecutor,
               mazExecutorResult, mazUserEmitted>>
history == <<received, reports, batches>>

\* An uncaught exception (failed assertion, TypeError) or process.exit(1).
Die(how, why) ==
    /\ proc' = how
    /\ crashWhy' = why
    /\ UNCHANGED <<taskLocal, reqs, agent, history>>

\* The agent gets a task for this zone: map or reduce, input local or remote.
AgentDispatch ==
    /\ proc = "running"
    /\ agent.taskId = 0
    /\ agent.dispatched < MaxTasks
    /\ \E red \in BOOLEAN, rem \in BOOLEAN :
          agent' = [taskId |-> agent.dispatched + 1, reduce |-> red,
                    remote |-> rem, handed |-> 0, inputDone |-> FALSE,
                    dispatched |-> agent.dispatched + 1, answered |-> 0]
    /\ UNCHANGED <<proc, crashWhy, taskLocal, reqs, history>>
    /\ UNCHANGED otherThanDrv

\* The task descriptors the agent may answer a long-poll with: a map task
\* carries its one key; a reduce task fed remotely carries the next batch of
\* at most MaxBatch keys and whether more may follow.
Descriptors ==
    IF agent.reduce /\ agent.remote /\ ~agent.inputDone
    THEN {[taskId |-> agent.taskId, reduce |-> TRUE, remote |-> TRUE,
           seq |-> agent.handed + 1,
           taskInputKeys |-> BatchKeys(agent.handed + 1, n),
           taskInputDone |-> d] :
             n \in 0..MaxBatch,
             d \in IF agent.handed + 1 >= MaxBatches THEN {TRUE} ELSE BOOLEAN}
    ELSE {[taskId |-> agent.taskId, reduce |-> agent.reduce,
           remote |-> agent.remote, seq |-> agent.handed + 1,
           taskInputKeys |-> BatchKeys(agent.handed + 1,
                                       IF agent.reduce THEN 0 ELSE 1),
           taskInputDone |-> TRUE]}

AgentHanded(task) ==
    [agent EXCEPT !.handed = @ + 1, !.inputDone = task.taskInputDone]

Sent(r) == proc = "running" /\ r \in reqs /\ ~r.wait

\* The expected_code each caller of mazParentRequest passes.
ExpectedOf(kind) == IF kind \in {"fetch", "poll"} THEN 200 ELSE 204

\* The request can be answered so that mazParentRequest does this.
Answered(r, outcome) ==
    {status \in Statuses :
        ParentOutcome(status, ExpectedOf(r.kind)) = outcome} # {}

\* mazParentRequest: a transport error, a 5xx, a 410 or an unexpected status
\* arms the retry timer.
ParentRetryable ==
    \E r \in reqs :
        /\ Sent(r) /\ Answered(r, "retry")
        /\ reqs' = (reqs \ {r}) \cup {[r EXCEPT !.wait = TRUE]}
        /\ UNCHANGED <<proc, crashWhy, taskLocal, agent, history>>
        /\ UNCHANGED otherThanDrv

\* mazParentRequest: the retry timer fires and the request is made again.
ParentRetryFire ==
    \E r \in reqs :
        /\ proc = "running" /\ r \in reqs /\ r.wait
        /\ reqs' = (reqs \ {r}) \cup {[r EXCEPT !.wait = FALSE]}
        /\ UNCHANGED <<proc, crashWhy, taskLocal, agent, history>>
        /\ UNCHANGED otherThanDrv

\* The assertions of mazTaskFetch's callback on the task-local state.
FetchPreconditionSkipped == TRUE
FetchPrecondition ==
    /\ mazPipeline = Undefined
    /\ mazCurrentTask = Undefined
    /\ mazExecutor = Undefined
    /\ mazExecutorResult = Undefined
    /\ mazErrorSave = Undefined

\* mazTaskFetch's callback on a 200: take the task, start the pipeline.
UserEmittedKept == mazUserEmitted
UserEmittedAtReceipt == FALSE

TaskFetchOK ==
    \E r \in reqs :
        /\ Sent(r) /\ r.kind = "fetch" /\ Answered(r, "ok")
        /\ agent.taskId # 0
        /\ \E task \in Descriptors :
              IF ~FetchPrecondition
              THEN Die("crashed", "fetch precondition") /\ UNCHANGED otherThanDrv
              ELSE /\ mazCurrentTask' = Some(task)
                   /\ mazUserEmitted' = UserEmittedAtReceipt
                   /\ mazPipeline' = Some([stage |-> "cleanup", task |-> task])
                   /\ agent' = AgentHanded(task)
                   /\ reqs' = reqs \ {r}
                   /\ received' = received + 1
                   /\ UNCHANGED <<proc, crashWhy, mazErrorSave, mazExecutor,
                                  mazExecutorResult, reports, batches>>
                   /\ UNCHANGED otherThanDrv

\* mazTaskFetch's callback on a 4xx: mod_assert.ok(!err) throws.
TaskFetchClientError ==
    \E r \in reqs :
        /\ Sent(r) /\ r.kind = "fetch" /\ Answered(r, "error")
        /\ Die("crashed", "fetch error")
        /\ UNCHANGED otherThanDrv

\* new MarlinExecutor(task): nothing opened, no batch yet.
NewExecutor(task) ==
    [task |-> task.taskId, reduce |-> task.reduce, remote |-> task.remote,
     child |-> "opening", batch |-> Undefined, queue |-> 0, ended |-> FALSE,
     destroyed |-> FALSE, drainDue |-> FALSE]

BatchOf(task) ==
    [task |-> task.taskId, seq |-> task.seq,
     taskInputKeys |-> task.taskInputKeys, taskInputDone |-> task.taskInputDone]

\* MarlinExecutor.prototype.batch: write every key to the input stream, end
\* the stream on the last batch, remember the batch.  The stream signals
\* "drain" once it has nothing left of what was written to it.
ExecutorBatch(e, state) ==
    LET open == ~e.ended /\ ~e.destroyed
        q == IF open THEN e.queue + Len(state.taskInputKeys) ELSE e.queue
    IN [e EXCEPT !.queue = q,
                 !.ended = @ \/ state.taskInputDone,
                 !.batch = Some(state),
                 !.drainDue = IF open THEN q = 0 ELSE @]

NewBatchHistory(b) ==
    [keys |-> b.taskInputKeys, done |-> b.taskInputDone, drains |-> 0,
     commits |-> 0, arg |-> Undefined, acked |-> FALSE,
     currentAtAck |-> FALSE, polls |-> 0]

Registered(b) ==
    IF <<b.task, b.seq>> \in DOMAIN batches THEN batches
    ELSE (<<b.task, b.seq>> :> NewBatchHistory(b)) @@ batches

\* What mazDecodeError returns: null, or an object with a message.
NoDecodedError == [message |-> "null", detail |-> ""]

\* mazDecodeError: the first of pipeline error, executor error, core dump,
\* signal, non-zero exit code; null when none applies.
MazDecodeErrorCodeFirst(pipelineError, result) ==
    IF pipelineError \/ Val(result).error
    THEN [message |-> "internal error", detail |-> ""]
    ELSE IF Val(result).core
    THEN [message |-> "user command or child process dumped core",
          detail |-> ""]
    ELSE IF Val(result).code # 0
    THEN [message |-> "user command exited with code",
          detail |-> ToString(Val(result).code)]
    ELSE IF Val(result).signal # "null"
    THEN [message |-> "user command terminated by",
          detail |-> Val(result).signal]
    ELSE NoDecodedError
MazDecodeError(pipelineError, result) ==
    IF pipelineError \/ Val(result).error
    THEN [message |-> "internal error", detail |-> ""]
    ELSE IF Val(result).core
    THEN [message |-> "user command or child process dumped core",
          detail |-> ""]
    ELSE IF Val(result).signal # "null"
    THEN [message |-> "user command terminated by",
          detail |-> Val(result).signal]
    ELSE IF Val(result).code # 0
    THEN [message |-> "user command exited with code",
          detail |-> ToString(Val(result).code)]
    ELSE NoDecodedError

\* mazTaskReport: fail with the decoded error, or commit.
ReportUri(error) == IF error # NoDecodedError THEN "fail" ELSE "commit"

\* mazTaskReport: POST fail with the decoded error, or POST commit.
ReportRequest(pipelineError, result) ==
    LET task == Val(mazCurrentTask)
        error == MazDecodeError(pipelineError, result)
    IN [kind |-> "report", task |-> task.taskId, seq |-> 0, wait |-> FALSE,
        arg |-> [uri |-> ReportUri(error),
                 key |-> IF task.reduce THEN Undefined
                         ELSE Some(task.taskInputKeys[1]),
                 error |-> error],
        done |-> FALSE]

\* The pipeline's completion callback reports the task, whatever the outcome.
PipelineEndRequestsOnSuccess(pipelineError, result) ==
    IF pipelineError THEN {} ELSE {ReportRequest(pipelineError, result)}
PipelineEndRequests(pipelineError, result) ==
    {ReportRequest(pipelineError, result)}

\* The stage that runs once stage s has called back: mazTaskRunSaveStdout
\* calls back at once if the user emitted output, mazTaskRunSaveStderr if
\* the exit code was 0.
SkipStderr(result) == IsDef(result) /\ Val(result).code = 0

AfterStageReportsEarly(s, result, emitted) ==
    CASE s = "spawn" /\ ~emitted -> "stdout"
      [] OTHER -> "end"
AfterStage(s, result, emitted) ==
    CASE s = "spawn" /\ ~emitted -> "stdout"
      [] s = "spawn" /\ emitted ->
            IF SkipStderr(result) THEN "end" ELSE "stderr"
      [] s = "stdout" -> IF SkipStderr(result) THEN "end" ELSE "stderr"
      [] OTHER -> "end"

\* mazTaskReport: a task that is not a reduce task has exactly one key.
ReportAssertion(task) == task.reduce \/ Len(task.taskInputKeys) = 1

\* Move the pipeline to stage next; at its end the completion callback
\* clears mazPipeline and calls mazTaskReport.
Proceed(next, pipelineError, result) ==
    IF next # "end"
    THEN /\ mazPipeline' = Some([Val(mazPipeline) EXCEPT !.stage = next])
         /\ UNCHANGED <<proc, crashWhy, reqs, reports>>
    ELSE IF ~ReportAssertion(Val(mazCurrentTask))
    THEN /\ mazPipeline' = Undefined
         /\ proc' = "crashed"
         /\ crashWhy' = "report assertion"
         /\ UNCHANGED <<reqs, reports>>
    ELSE LET out == PipelineEndRequests(pipelineError, result) IN
         /\ mazPipeline' = Undefined
         /\ reqs' = reqs \cup out
         /\ reports' = [reports EXCEPT ![Val(mazCurrentTask).taskId] =
                            @ + Cardinality(out)]
         /\ UNCHANGED <<proc, crashWhy>>

InStage(s) ==
    proc = "running" /\ IsDef(mazPipeline) /\ Val(mazPipeline).stage \in s

\* mazTaskRunCleanup succeeded; mazTaskRunSpawn builds the executor and
\* starts it, which for remote input feeds the descriptor's keys.
TaskRunCleanupOK ==
    /\ InStage({"cleanup"})
    /\ LET task == Val(mazPipeline).task
           e == NewExecutor(task)
       IN /\ mazExecutor' =
                Some(IF task.remote THEN ExecutorBatch(e, BatchOf(task)) ELSE e)
          /\ batches' = IF task.remote THEN Registered(BatchOf(task))
                        ELSE batches
    /\ mazPipeline' = Some([Val(mazPipeline) EXCEPT !.stage = "spawn"])
    /\ UNCHANGED <<proc, crashWhy, mazCurrentTask, mazErrorSave,
                   mazExecutorResult, mazUserEmitted, reqs, agent, received,
                   reports>>
    /\ UNCHANGED otherThanDrv

\* mazTaskRunCleanup failed: the pipeline stops and its callback gets the error.
TaskRunCleanupFail ==
    /\ InStage({"cleanup"})
    /\ Proceed("end", TRUE, mazExecutorResult)
    /\ UNCHANGED <<mazCurrentTask, mazErrorSave, mazExecutor,
                   mazExecutorResult, mazUserEmitted, agent, received, batches>>
    /\ UNCHANGED otherThanDrv

Executing(c) ==
    proc = "running" /\ IsDef(mazExecutor) /\ Val(mazExecutor).child \in c

\* MarlinExecutor.start: the barrier drains and the child process is started.
ExecutorStart ==
    /\ Executing({"opening"})
    /\ mazExecutor' = Some([Val(mazExecutor) EXCEPT !.child = "running"])
    /\ UNCHANGED <<proc, crashWhy, mazPipeline, mazCurrentTask, mazErrorSave,
                   mazExecutorResult, mazUserEmitted, reqs, agent, history>>
    /\ UNCHANGED otherThanDrv

\* The input stream feeds one key to the child; with the last one fed it has
\* a drain signal to deliver.
StreamConsume ==
    /\ Executing({"running"})
    /\ Val(mazExecutor).queue > 0 /\ ~Val(mazExecutor).destroyed
    /\ mazExecutor' = Some([Val(mazExecutor) EXCEPT
                              !.queue = @ - 1,
                              !.drainDue = (@ \/ Val(mazExecutor).queue = 1)])
    /\ UNCHANGED <<proc, crashWhy, mazPipeline, mazCurrentTask, mazErrorSave,
                   mazExecutorResult, mazUserEmitted, reqs, agent, history>>
    /\ UNCHANGED otherThanDrv

\* mazDoneBatch: the guard that ignores a drain.
DrainIgnoredIfEmpty(batch) == Len(batch.taskInputKeys) = 0
DrainIgnored(batch) ==
    Len(batch.taskInputKeys) = 0 \/ mazExecutorResult # Undefined

\* mazDoneBatch: the body of the commit.
CommitArg(batch) ==
    [key |-> batch.taskInputKeys[1], nkeys |-> Len(batch.taskInputKeys)]

CommitRequest(batch) ==
    [kind |-> "commit", task |-> batch.task, seq |-> batch.seq,
     wait |-> FALSE, arg |-> CommitArg(batch), done |-> batch.taskInputDone]

\* The stream's "drain" is delivered: the executor emits "drain" with its
\* current batch and, for a reduce task, mazDoneBatch commits the batch.
StreamDrain ==
    /\ Executing({"running", "done"})
    /\ Val(mazExecutor).drainDue
    /\ mazExecutor' = Some([Val(mazExecutor) EXCEPT !.drainDue = FALSE])
    /\ LET batch == Val(Val(mazExecutor).batch)
           key == <<batch.task, batch.seq>>
       IN IF ~Val(mazExecutor).reduce
          THEN UNCHANGED <<reqs, batches>>
          ELSE IF DrainIgnored(batch)
          THEN UNCHANGED <<reqs, batches>>
          ELSE /\ reqs' = reqs \cup {CommitRequest(batch)}
               /\ batches' = [batches EXCEPT ![key].drains = @ + 1,
                                             ![key].commits = @ + 1,
                                             ![key].arg = Some(CommitArg(batch))]
    /\ UNCHANGED <<proc, crashWhy, mazPipeline, mazCurrentTask, mazErrorSave,
                   mazExecutorResult, mazUserEmitted, agent, received, reports>>
    /\ UNCHANGED otherThanDrv

\* The child ends: the executor emits "done", mazTaskRunSpawn records the
\* result and calls back, and a still readable input stream is destroyed.
ExecutorDone ==
    /\ Executing({"running"})
    /\ \E result \in ExecResults :
          /\ mazExecutorResult' = Some(result)
          /\ Proceed(AfterStage("spawn", Some(result), mazUserEmitted),
                     FALSE, Some(result))
    /\ mazExecutor' = Some([Val(mazExecutor) EXCEPT
                              !.child = "done", !.destroyed = TRUE])
    /\ UNCHANGED <<mazCurrentTask, mazErrorSave,
                   mazUserEmitted, agent, received, batches>>
    /\ UNCHANGED otherThanDrv

\* mazFileSave's callback without error: the stage calls back.
FileSaveOK ==
    /\ InStage({"stdout", "stderr"})
    /\ Proceed(AfterStage(Val(mazPipeline).stage, mazExecutorResult,
                          mazUserEmitted), FALSE, mazExecutorResult)
    /\ UNCHANGED <<mazCurrentTask, mazErrorSave, mazExecutor,
                   mazExecutorResult, mazUserEmitted, agent, received, batches>>
    /\ UNCHANGED otherThanDrv

\* mazFileSave's callback with an error: the first such error is kept in
\* mazErrorSave and the stage calls back without error.
FileSaveFail ==
    /\ InStage({"stdout", "stderr"})
    /\ mazErrorSave' = IF mazErrorSave = Undefined
                       THEN Some(Val(mazPipeline).stage) ELSE mazErrorSave
    /\ Proceed(AfterStage(Val(mazPipeline).stage, mazExecutorResult,
                          mazUserEmitted), FALSE, mazExecutorResult)
    /\ UNCHANGED <<mazCurrentTask, mazExecutor,
                   mazExecutorResult, mazUserEmitted, agent, received, batches>>
    /\ UNCHANGED otherThanDrv

\* mazApiProxy: a PUT outside /my/jobs/task/ with "x-marlin-stream: stdout"
\* arrives on the zone's server, which listens whether or not a task runs.
UserEmit ==
    /\ proc = "running"
    /\ ~mazUserEmitted
    /\ mazUserEmitted' = TRUE
    /\ UNCHANGED <<proc, crashWhy, mazPipeline, mazCurrentTask, mazErrorSave,
                   mazExecutor, mazExecutorResult, reqs, agent, history>>
    /\ UNCHANGED otherThanDrv

\* mazTaskReport's callback: mazExecutorResult is reset with the rest.
ExecutorResultKept == mazExecutorResult
ExecutorResultAfterReport == Undefined

\* mazTaskReport's callback ends with mazTaskFetch(), error or not.
ReportCallbackRequestsOn204(status) ==
    IF status = 204 THEN {FetchRequest(received)} ELSE {}
ReportCallbackRequests(status) == {FetchRequest(received)}

\* mazTaskReport's callback, on the 204 and on a 4xx alike: reset the task's
\* state and fetch the next task.  The agent has moved on from the task.
Reported(r, status) ==
    /\ mazCurrentTask' = Undefined
    /\ mazExecutor' = Undefined
    /\ mazExecutorResult' = ExecutorResultAfterReport
    /\ mazErrorSave' = Undefined
    /\ reqs' = (reqs \ {r}) \cup ReportCallbackRequests(status)
    /\ agent' = [NoAgentTask EXCEPT !.dispatched = agent.dispatched,
                                    !.answered = status]
    /\ UNCHANGED <<proc, crashWhy, mazPipeline, mazUserEmitted, history>>
    /\ UNCHANGED otherThanDrv

TaskReportOK ==
    \E r \in reqs, status \in Statuses :
        /\ Sent(r) /\ r.kind = "report"
        /\ ParentOutcome(status, ExpectedOf(r.kind)) = "ok"
        /\ Reported(r, status)

TaskReportClientError ==
    \E r \in reqs, status \in Statuses :
        /\ Sent(r) /\ r.kind = "report"
        /\ ParentOutcome(status, ExpectedOf(r.kind)) = "error"
        /\ Reported(r, status)

\* mazDoneBatch's commit callback: no poll after the last batch or once the
\* task is no longer current.
NoNextBatchUnlessReported(r) == mazCurrentTask = Undefined
NoNextBatch(r) == r.done \/ mazCurrentTask = Undefined

PollRequest(r) ==
    [kind |-> "poll", task |-> r.task, seq |-> r.seq,
     wait |-> FALSE, arg |-> Undefined, done |-> FALSE]

\* The commit of a batch is acknowledged (204).
BatchCommitOK ==
    \E r \in reqs :
        /\ Sent(r) /\ r.kind = "commit" /\ Answered(r, "ok")
        /\ LET key == <<r.task, r.seq>> IN
           IF NoNextBatch(r)
           THEN /\ reqs' = reqs \ {r}
                /\ batches' = [batches EXCEPT
                                  ![key].acked = TRUE,
                                  ![key].currentAtAck = IsDef(mazCurrentTask)]
           ELSE /\ reqs' = (reqs \ {r}) \cup {PollRequest(r)}
                /\ batches' = [batches EXCEPT
                                  ![key].acked = TRUE,
                                  ![key].currentAtAck = IsDef(mazCurrentTask),
                                  ![key].polls = @ + 1]
        /\ UNCHANGED <<proc, crashWhy, taskLocal, agent, received, reports>>
        /\ UNCHANGED otherThanDrv

\* The commit of a batch gets a 4xx: process.exit(1).
BatchCommitClientError ==
    \E r \in reqs :
        /\ Sent(r) /\ r.kind = "commit" /\ Answered(r, "error")
        /\ Die("exited", "commit error")
        /\ UNCHANGED otherThanDrv

\* The next-batch long-poll is answered (200) with the agent's pending task.
NextBatchOK ==
    \E r \in reqs :
        /\ Sent(r) /\ r.kind = "poll" /\ Answered(r, "ok")
        /\ agent.taskId # 0
        /\ \E task \in Descriptors :
              IF mazCurrentTask = Undefined
              THEN Die("crashed", "poll: no current task") /\ UNCHANGED otherThanDrv
              ELSE IF Val(mazCurrentTask).taskId # task.taskId
              THEN Die("crashed", "poll: other task") /\ UNCHANGED otherThanDrv
              ELSE IF mazExecutor = Undefined \/ ~Val(mazExecutor).remote
              THEN Die("crashed", "poll: no input stream") /\ UNCHANGED otherThanDrv
              ELSE /\ mazCurrentTask' = Some(task)
                   /\ mazExecutor' =
                         Some(ExecutorBatch(Val(mazExecutor), BatchOf(task)))
                   /\ batches' = Registered(BatchOf(task))
                   /\ agent' = AgentHanded(task)
                   /\ reqs' = reqs \ {r}
                   /\ UNCHANGED <<proc, crashWhy, mazPipeline, mazErrorSave,
                                  mazExecutorResult, mazUserEmitted, received,
                                  reports>>
                   /\ UNCHANGED otherThanDrv

\* The next-batch long-poll gets a 4xx: process.exit(1).
NextBatchClientError ==
    \E r \in reqs :
        /\ Sent(r) /\ r.kind = "poll" /\ Answered(r, "error")
        /\ Die("exited", "poll error")
        /\ UNCHANGED otherThanDrv

DrvNext ==
    \/ AgentDispatch
    \/ TaskRunCleanupOK
    \/ TaskRunCleanupFail
    \/ ExecutorStart
    \/ StreamConsume
    \/ StreamDrain
    \/ ExecutorDone
    \/ FileSaveOK
    \/ FileSaveFail
    \/ UserEmit
    \/ ParentRetryable
    \/ ParentRetryFire
    \/ TaskFetchOK
    \/ TaskFetchClientError
    \/ TaskReportOK
    \/ TaskReportClientError
    \/ BatchCommitOK
    \/ BatchCommitClientError
    \/ NextBatchOK
    \/ NextBatchClientError

(***************************************************************************)
(* Part 6.  Liveness heartbeat (lib/agent/lackey.js)                       *)
(***************************************************************************)
Ticks == 1..MaxTicks

LiveIdle ==
    /\ mazLivenessPending = FALSE
    /\ mazLivenessTimeout = FALSE
    /\ liveReqs = [i \in Ticks |-> "none"]
    /\ liveSkipped = 0

\* mazTaskFetch's callback has set the interval for the task it received.
LiveInit ==
    /\ mazLivenessPending = FALSE
    /\ mazLivenessTimeout = TRUE
    /\ liveReqs = [i \in Ticks |-> "none"]
    /\ liveSkipped = 0

\* makerequest of the heartbeat: it resets mazLivenessPending and posts.
PendingAfterMakeRequest == FALSE

Ticked == {i \in Ticks : liveReqs[i] # "none"}

\* mazTaskLivenessTick: nothing if a request is pending; else mark it
\* pending and call mazParentRequest, which makes the request at once.
LivenessTick ==
    /\ mazLivenessTimeout
    /\ Cardinality(Ticked) + liveSkipped < MaxTicks
    /\ IF mazLivenessPending
       THEN /\ liveSkipped' = liveSkipped + 1
            /\ UNCHANGED <<mazLivenessPending, liveReqs>>
       ELSE /\ mazLivenessPending' = PendingAfterMakeRequest
            /\ liveReqs' = [liveReqs EXCEPT
                              ![CHOOSE i \in Ticks : liveReqs[i] = "none"] =
                                  "sent"]
            /\ UNCHANGED liveSkipped
    /\ UNCHANGED mazLivenessTimeout
    /\ UNCHANGED otherThanLive

\* The heartbeat is answered so that mazParentRequest calls back (any 2xx or
\* 3xx, or a 4xx that is only logged): the request is over.
LivenessAnswered ==
    \E i \in Ticks :
        /\ liveReqs[i] = "sent"
        /\ {st \in Statuses : ParentOutcome(st, 0) # "retry"} # {}
        /\ liveReqs' = [liveReqs EXCEPT ![i] = "done"]
        /\ UNCHANGED <<mazLivenessPending, mazLivenessTimeout, liveSkipped>>
        /\ UNCHANGED otherThanLive

\* The heartbeat fails so that mazParentRequest sets the retry timer.
LivenessRetryable ==
    \E i \in Ticks :
        /\ liveReqs[i] = "sent"
        /\ {st \in Statuses : ParentOutcome(st, 0) = "retry"} # {}
        /\ liveReqs' = [liveReqs EXCEPT ![i] = "wait"]
        /\ UNCHANGED <<mazLivenessPending, mazLivenessTimeout, liveSkipped>>
        /\ UNCHANGED otherThanLive

\* The retry timer fires: makerequest runs again.
LivenessRetryTimer ==
    \E i \in Ticks :
        /\ liveReqs[i] = "wait"
        /\ liveReqs' = [liveReqs EXCEPT ![i] = "sent"]
        /\ mazLivenessPending' = PendingAfterMakeRequest
        /\ UNCHANGED <<mazLivenessTimeout, liveSkipped>>
        /\ UNCHANGED otherThanLive

\* The task's pipeline completes: clearInterval(mazLivenessTimeout).
LivenessStop ==
    /\ mazLivenessTimeout
    /\ mazLivenessTimeout' = FALSE
    /\ UNCHANGED <<mazLivenessPending, liveReqs, liveSkipped>>
    /\ UNCHANGED otherThanLive

LiveNext ==
    \/ LivenessTick
    \/ LivenessAnswered
    \/ LivenessRetryable
    \/ LivenessRetryTimer
    \/ LivenessStop

(***************************************************************************)
(* Part 7.  mazDecodeError and mazTaskReport on every outcome of a task    *)
(***************************************************************************)
DecIdle ==
    /\ decIn = [pipelineError |-> FALSE, result |-> Undefined]
    /\ decOut = Some([uri |-> "commit", error |-> NoDecodedError])

\* A pipeline ends: with an error (the executor may not have run), or
\* without one after the executor delivered its result.
DecInit ==
    /\ decIn \in {[pipelineError |-> p, result |-> r] :
                     p \in BOOLEAN,
                     r \in {Undefined} \cup {Some(x) : x \in AllResults}}
    /\ decIn.pipelineError \/ decIn.result # Undefined
    /\ decOut = Undefined

\* mazTaskReport decodes the outcome and chooses what to post.
DecodeReport ==
    /\ decOut = Undefined
    /\ LET error == MazDecodeError(decIn.pipelineError, decIn.result) IN
       decOut' = Some([uri |-> ReportUri(error), error |-> error])
    /\ UNCHANGED decIn
    /\ UNCHANGED otherThanDec

DecNext == DecodeReport

(***************************************************************************)
(* Part 8.  jobFetchLog (lib/marlin.js): JobLogFetcher                     *)
(*                                                                         *)
(* findObjects answers a query with the first "limit" records that match   *)
(* when it is issued, as "record" events followed by "end", or with        *)
(* "error".                                                                *)
(***************************************************************************)
LogRecs == 1..MaxTaskRecs

RECURSIVE Ascending(_)
Ascending(S) ==
    IF S = {} THEN <<>>
    ELSE LET m == CHOOSE x \in S : \A y \in S : x <= y
         IN <<m>> \o Ascending(S \ {m})

\* client.findObjects(bucket, ml_filter, ml_options): the filter names the
\* job only and the options carry the limit only.
FindObjects(matching, limit) ==
    LET all == Ascending(matching)
    IN SubSeq(all, 1, Min(limit, Len(all)))

NoLogEvents ==
    [ends |-> 0, errors |-> 0, jobs |-> 0, pages |-> 0, asserted |-> FALSE,
     emitted |-> [id \in LogRecs |-> 0]]

LogIdle ==
    /\ logTasks = {}
    /\ ml_npending = 0
    /\ ml_ntasks = 0
    /\ ml_req_job = "ended"
    /\ ml_req_tasks = Undefined
    /\ logEvents = NoLogEvents

\* new JobLogFetcher(api, jobid), for a job with some task records.
LogInit ==
    /\ logTasks \in {1..n : n \in 0..MaxTaskRecs}
    /\ ml_npending = 0
    /\ ml_ntasks = 0
    /\ ml_req_job = "undefined"
    /\ ml_req_tasks = Undefined
    /\ logEvents = NoLogEvents

\* checkDone: the pending count after it, whether "end" is emitted, and
\* whether its assertion failed.
CheckDone(npending) ==
    [npending |-> npending - 1, end |-> npending - 1 = 0,
     asserted |-> ~(npending > 0)]

\* The task query's "end" handler on a full page: one query fewer pending,
\* nothing emitted.
RepageThroughCheckDone(npending) == CheckDone(npending)
Repage(npending) ==
    [npending |-> npending - 1, end |-> FALSE, asserted |-> FALSE]

Emit(done) ==
    [logEvents EXCEPT !.ends = IF done.end THEN @ + 1 ELSE @,
                      !.asserted = @ \/ done.asserted]

\* fetchTasks: reset the count, one more query pending, issue the query.
FetchTasks(npending, events) ==
    /\ ml_ntasks' = 0
    /\ ml_npending' = npending + 1
    /\ ml_req_tasks' = Some([left |-> FindObjects(logTasks, PageLimit),
                             state |-> "open"])
    /\ logEvents' = [events EXCEPT !.pages = @ + 1]

\* start: issue the job query, then fetchTasks.
JobLogStart ==
    /\ ml_req_job = "undefined" /\ ml_req_tasks = Undefined /\ ml_npending = 0
    /\ ml_req_job' = "open"
    /\ FetchTasks(ml_npending + 1, logEvents)
    /\ UNCHANGED logTasks
    /\ UNCHANGED otherThanLog

\* The job query's "record": emitJob.
JobLogRecord ==
    /\ ml_req_job = "open"
    /\ ml_req_job' = "recorded"
    /\ logEvents' = [logEvents EXCEPT !.jobs = @ + 1]
    /\ UNCHANGED <<logTasks, ml_npending, ml_ntasks, ml_req_tasks>>
    /\ UNCHANGED otherThanLog

\* The job query's "end": checkDone.
JobLogEnd ==
    /\ ml_req_job \in {"open", "recorded"}
    /\ ml_req_job' = "ended"
    /\ ml_npending' = CheckDone(ml_npending).npending
    /\ logEvents' = Emit(CheckDone(ml_npending))
    /\ UNCHANGED <<logTasks, ml_ntasks, ml_req_tasks>>
    /\ UNCHANGED otherThanLog

TasksOpen == ml_req_tasks # Undefined /\ Val(ml_req_tasks).state = "open"

\* The task query's "record": count it, emitTask.
TaskLogRecord ==
    /\ TasksOpen
    /\ Val(ml_req_tasks).left # <<>>
    /\ ml_ntasks' = ml_ntasks + 1
    /\ ml_req_tasks' = Some([Val(ml_req_tasks) EXCEPT !.left = Tail(@)])
    /\ logEvents' = [logEvents EXCEPT
                       !.emitted[Head(Val(ml_req_tasks).left)] = @ + 1]
    /\ UNCHANGED <<logTasks, ml_npending, ml_req_job>>
    /\ UNCHANGED otherThanLog

\* The task query's "end" after a short page: checkDone.
TaskLogEnd ==
    /\ TasksOpen
    /\ Val(ml_req_tasks).left = <<>>
    /\ ml_ntasks < PageLimit
    /\ ml_req_tasks' = Some([Val(ml_req_tasks) EXCEPT !.state = "ended"])
    /\ ml_npending' = CheckDone(ml_npending).npending
    /\ logEvents' = Emit(CheckDone(ml_npending))
    /\ UNCHANGED <<logTasks, ml_ntasks, ml_req_job>>
    /\ UNCHANGED otherThanLog

\* The task query's "end" after a full page: fetchTasks again.
TaskLogRepage ==
    /\ TasksOpen
    /\ Val(ml_req_tasks).left = <<>>
    /\ ~(ml_ntasks < PageLimit)
    /\ logEvents.pages < MaxPages
    /\ FetchTasks(Repage(ml_npending).npending, Emit(Repage(ml_npending)))
    /\ UNCHANGED <<logTasks, ml_req_job>>
    /\ UNCHANGED otherThanLog

\* A query's "error": the fetcher emits "error"; the query is over.
JobLogError ==
    /\ ml_req_job \in {"open", "recorded"}
    /\ ml_req_job' = "failed"
    /\ logEvents' = [logEvents EXCEPT !.errors = @ + 1]
    /\ UNCHANGED <<logTasks, ml_npending, ml_ntasks, ml_req_tasks>>
    /\ UNCHANGED otherThanLog

TaskLogError ==
    /\ TasksOpen
    /\ ml_req_tasks' = Some([Val(ml_req_tasks) EXCEPT !.state = "failed"])
    /\ logEvents' = [logEvents EXCEPT !.errors = @ + 1]
    /\ UNCHANGED <<logTasks, ml_npending, ml_ntasks, ml_req_job>>
    /\ UNCHANGED otherThanLog

\* Another client removes one of the job's task records (jobDelete).
LogTaskDeleted ==
    /\ ml_req_job # "undefined"
    /\ \E id \in logTasks : logTasks' = logTasks \ {id}
    /\ UNCHANGED <<ml_npending, ml_ntasks, ml_req_job, ml_req_tasks, logEvents>>
    /\ UNCHANGED otherThanLog

LogNext ==
    \/ JobLogStart
    \/ JobLogRecord
    \/ JobLogEnd
    \/ TaskLogRecord
    \/ TaskLogEnd
    \/ TaskLogRepage
    \/ JobLogError
    \/ TaskLogError
    \/ LogTaskDeleted

(***************************************************************************)
(* Part 9.  jobCreate (lib/marlin.js), alongside the read-modify-write     *)
(* operations on the same job id                                           *)
(***************************************************************************)
CrtIdle == creates = 0

\* The value jobCreate builds from "conf": "input" only when given, and none
\* of the lifecycle timestamps.
CreateValueMerged(piped) == [jobVal EXCEPT !.input = piped]
CreateValue(piped) == NewJobValue(piped)

\* jobCreate with conf.jobId naming the job: putObject(bucket, key, value)
\* carries no etag, so the store writes the record whether or not one exists.
JobCreate ==
    /\ creates < MaxCreates
    /\ creates' = creates + 1
    /\ \E piped \in BOOLEAN :
          /\ jobExists' = TRUE
          /\ jobVal' = CreateValue(piped)
          /\ jobEtag' = jobEtag + 1
    /\ UNCHANGED <<calls, lost, writes>>
    /\ UNCHANGED otherThanCrt

CrtNext ==
    \/ JobNext
    \/ JobCreate

(***************************************************************************)
(* Part 10.  jobsList (lib/marlin.js): the query built from the options    *)
(*                                                                         *)
(* A string is a sequence of characters.  A filter is kept as the sequence *)
(* of its clauses, in the order the code concatenates them.                *)
(***************************************************************************)
WordChars == {"b", "7", "_", "-"}
OtherChars == {";", " ", "\n"}
Chars == WordChars \cup OtherChars
Strings == UNION {[1..n -> Chars] : n \in 0..MaxLen}

Absent == [t |-> "undefined"]
Null == [t |-> "null"]
True == [t |-> "boolean", b |-> TRUE]
False == [t |-> "boolean", b |-> FALSE]
Str(s) == [t |-> "string", s |-> s]

\* The JavaScript truth value of an option.
Truthy(v) ==
    CASE v.t = "string" -> v.s # <<>>
      [] v.t = "boolean" -> v.b
      [] OTHER -> FALSE

\* /^[\d\w-]+$/.test(v): v is converted to a string first ("true", "null"
\* and "undefined" all match); "$" matches at the very end only.
TokenTestAny(v) == TRUE
TokenTest(v) ==
    IF v.t = "string"
    THEN v.s # <<>> /\ \A i \in 1..Len(v.s) : v.s[i] \in WordChars
    ELSE TRUE

TokenKeys == {"name", "owner", "jobId", "worker", "wrasse"}
PlainValues == {Absent, Str(<<"b">>)}
OptionValues == {Absent, Null, True, False} \cup {Str(s) : s \in Strings}

Clause(attr, val) == [attr |-> attr, val |-> val]

\* if (options[k] && /^[\d\w-]+$/.test(options[k])) filters.push(...)
TokenClause(options, k) ==
    IF Truthy(options[k]) /\ TokenTest(options[k])
    THEN <<Clause(k, options[k])>> ELSE <<>>

\* The wrasse option: null, true, or a token.
WrasseClause(options) ==
    IF options.wrasse = Null THEN <<Clause("!wrasse", Str(<<>>))>>
    ELSE IF options.wrasse = True THEN <<Clause("wrasse", Str(<<>>))>>
    ELSE TokenClause(options, "wrasse")

Filters(options) ==
    TokenClause(options, "name") \o TokenClause(options, "owner")
    \o TokenClause(options, "jobId") \o TokenClause(options, "worker")
    \o (IF Truthy(options.cancelled)
        THEN <<Clause("timeCancelled", Str(<<>>))>> ELSE <<>>)
    \o (IF options.archived = True
        THEN <<Clause("timeArchiveDone", Str(<<>>))>>
        ELSE IF options.archived = False
        THEN <<Clause("!timeArchiveDone", Str(<<>>))>> ELSE <<>>)
    \o WrasseClause(options)

\* The filter handed to findObjects: "(&" and the clauses, or "(jobId=*"
\* when there is none, then the marker clause if a marker was given.
JobsListQuery(options) ==
    [head |-> IF Len(Filters(options)) > 0 THEN "(&" ELSE "(jobId=*",
     clauses |-> Filters(options)
                 \o (IF Truthy(options.marker)
                     THEN <<Clause("_id>", options.marker)>> ELSE <<>>)]

LstIdle ==
    /\ lstIn = [k \in TokenKeys \cup {"cancelled", "archived", "marker"}
                  |-> Absent]
    /\ lstOut = Some(JobsListQuery(lstIn))

\* jobsList is about to be called: one option holds any value, the others
\* are absent or plain.
LstInit ==
    /\ \E k \in TokenKeys, v \in OptionValues, plain \in [TokenKeys -> PlainValues],
          cancelled \in {Absent, True}, archived \in {Absent, True, False},
          marker \in {Absent, Str(<<"7">>)} :
          lstIn = [j \in TokenKeys \cup {"cancelled", "archived", "marker"} |->
                     IF j = k THEN v
                     ELSE IF j = "cancelled" THEN cancelled
                     ELSE IF j = "archived" THEN archived
                     ELSE IF j = "marker" THEN marker
                     ELSE plain[j]]
    /\ lstOut = Undefined

\* jobsList(options): build the filter and issue findObjects.
JobsList ==
    /\ lstOut = Undefined
    /\ lstOut' = Some(JobsListQuery(lstIn))
    /\ UNCHANGED lstIn
    /\ UNCHANGED otherThanLst

LstNext ==
    \/ JobsList

(***************************************************************************)
(* Specifications                                                          *)
(***************************************************************************)
\* In each specification the other subsystems stay in their idle state.
InitJob ==
    /\ JobInit
    /\ TaskIdle
    /\ DelIdle
    /\ DrvIdle
    /\ ParIdle
    /\ LiveIdle
    /\ DecIdle
    /\ LogIdle
    /\ CrtIdle
    /\ LstIdle
SpecJob == InitJob /\ [][JobNext]_vars

InitTask ==
    /\ TaskInit
    /\ JobIdle
    /\ DelIdle
    /\ DrvIdle
    /\ ParIdle
    /\ LiveIdle
    /\ DecIdle
    /\ LogIdle
    /\ CrtIdle
    /\ LstIdle
SpecTask == InitTask /\ [][TaskNext]_vars

InitDel ==
    /\ DelInit
    /\ JobIdle
    /\ TaskIdle
    /\ DrvIdle
    /\ ParIdle
    /\ LiveIdle
    /\ DecIdle
    /\ LogIdle
    /\ CrtIdle
    /\ LstIdle
SpecDel == InitDel /\ [][DelNext]_vars

InitDrv ==
    /\ DrvInit
    /\ JobIdle
    /\ TaskIdle
    /\ DelIdle
    /\ ParIdle
    /\ LiveIdle
    /\ DecIdle
    /\ LogIdle
    /\ CrtIdle
    /\ LstIdle
SpecDrv == InitDrv /\ [][DrvNext]_vars

InitPar ==
    /\ ParInit
    /\ JobIdle
    /\ TaskIdle
    /\ DelIdle
    /\ DrvIdle
    /\ LiveIdle
    /\ DecIdle
    /\ LogIdle
    /\ CrtIdle
    /\ LstIdle
SpecPar == InitPar /\ [][ParNext]_vars

InitLive ==
    /\ LiveInit
    /\ JobIdle
    /\ TaskIdle
    /\ DelIdle
    /\ DrvIdle
    /\ ParIdle
    /\ DecIdle
    /\ LogIdle
    /\ CrtIdle
    /\ LstIdle
SpecLive == InitLive /\ [][LiveNext]_vars

InitDec ==
    /\ DecInit
    /\ JobIdle
    /\ TaskIdle
    /\ DelIdle
    /\ DrvIdle
    /\ ParIdle
    /\ LiveIdle
    /\ LogIdle
    /\ CrtIdle
    /\ LstIdle
SpecDec == InitDec /\ [][DecNext]_vars

InitLog ==
    /\ LogInit
    /\ JobIdle
    /\ TaskIdle
    /\ DelIdle
    /\ DrvIdle
    /\ ParIdle
    /\ LiveIdle
    /\ DecIdle
    /\ CrtIdle
    /\ LstIdle
SpecLog == InitLog /\ [][LogNext]_vars

InitCrt ==
    /\ JobInit
    /\ CrtIdle
    /\ TaskIdle
    /\ DelIdle
    /\ DrvIdle
    /\ ParIdle
    /\ LiveIdle
    /\ DecIdle
    /\ LogIdle
    /\ LstIdle
SpecCrt == InitCrt /\ [][CrtNext]_vars

InitLst ==
    /\ LstInit
    /\ JobIdle
    /\ TaskIdle
    /\ DelIdle
    /\ DrvIdle
    /\ ParIdle
    /\ LiveIdle
    /\ DecIdle
    /\ LogIdle
    /\ CrtIdle
SpecLst == InitLst /\ [][LstNext]_vars

(***************************************************************************)
(* Specification in which the store may fail a write of taskDone's second  *)
(* stage                                                                   *)
(***************************************************************************)
SpecTaskFail == InitTask /\ [][TaskFailNext]_vars

(***************************************************************************)
(* Specification in which input keys are added to the job being deleted    *)
(***************************************************************************)
SpecDelAdd == InitDel /\ [][DelAddNext]_vars

(***************************************************************************)
(* Specifications in which the store answers every request it was sent     *)
(***************************************************************************)
SpecDelRun ==
    /\ InitDel
    /\ [][DelRunNext]_vars
    /\ \A d \in Dels : /\ WF_vars(JobDeleteBatchReply(d))
                       /\ WF_vars(JobDeleteObjectReply(d))

(***************************************************************************)
(* Claims                                                                  *)
(***************************************************************************)
StampsIn(v) ==
    {v.timeCancelled, v.timeInputDone, v.timeArchiveStarted,
     v.timeArchiveDone, v.wrasse} \ {Unset}

Wrote(c) == calls[c].put # "none"

\* C1: of two read-modify-write attempts that read the same version of the
\* job record and both wrote, at most one conditional write succeeded, and
\* one did succeed unless a third writer consumed that version first; the
\* stored record never holds the mutation of an attempt whose write lost.
C1_OneWinnerPerVersion ==
    /\ \A a, b \in Calls :
          (a # b /\ Wrote(a) /\ Wrote(b)
                 /\ calls[a].job.etag = calls[b].job.etag)
          => /\ ~(calls[a].put = "ok" /\ calls[b].put = "ok")
             /\ \/ calls[a].put = "ok"
                \/ calls[b].put = "ok"
                \/ \E w \in writes : /\ w.etag = calls[a].job.etag
                                     /\ w.by[1] \notin {a, b}
    /\ \A s \in lost : s \notin StampsIn(jobVal)

C1_Witness ==
    \E a, b \in Calls :
        /\ a # b
        /\ calls[a].job.etag = calls[b].job.etag
        /\ calls[a].put = "ok" /\ calls[b].put = "conflict"
        /\ calls[a].op = "jobCancel" /\ calls[b].op = "jobEndInput"
        /\ jobVal.timeCancelled # Unset /\ jobVal.timeInputDone = Unset

Succeeded(c) == calls[c].pc = "done" /\ calls[c].err = "none"

\* C2: once a cancelJob and an endInput call on the same job have both
\* reported success, the stored record has both timeCancelled and
\* timeInputDone set, whatever the interleaving and the retries taken.
C2_NoLostUpdate ==
    \A a, b \in Calls :
        (/\ calls[a].op = "jobCancel" /\ Succeeded(a)
         /\ calls[b].op = "jobEndInput" /\ Succeeded(b))
        => jobVal.timeCancelled # Unset /\ jobVal.timeInputDone # Unset

C2_Witness ==
    \E a, b \in Calls :
        /\ calls[a].op = "jobCancel" /\ Succeeded(a)
        /\ calls[b].op = "jobEndInput" /\ Succeeded(b)
        /\ calls[b].attempt = 2 /\ calls[b].gets = 2 /\ calls[b].puts = 2
        /\ Stamp(b) = jobVal.timeInputDone
        /\ jobVal.timeCancelled = Stamp(a)

\* C3: a call without a retry policy reads once and writes at most once; if
\* the token changed between its read and its write, it ends with the
\* conflict error and no write of the stored record is its own.
C3_SingleAttempt ==
    \A c \in Calls :
        ~calls[c].retry =>
            /\ calls[c].gets <= 1 /\ calls[c].puts <= 1
            /\ calls[c].pc = "done" => calls[c].gets = 1
            /\ calls[c].put = "conflict" =>
                  /\ calls[c].pc = "done" /\ calls[c].err = "conflict"
                  /\ \A w \in writes : w.by[1] # c
                  /\ \A s \in StampsIn(jobVal) : s[1] # c

C3_Witness ==
    \E c \in Calls :
        /\ ~calls[c].retry /\ calls[c].pc = "done"
        /\ calls[c].err = "conflict" /\ calls[c].gets = 1 /\ calls[c].puts = 1
        /\ calls[c].job.etag # jobEtag

Created(c) == errorRecs[c] + outputRecs[c]

\* C4: a task is finalized at most once: a call that fetched a done task
\* fails with "task is already done" before writing anything, a call whose
\* fetched version was finalized by another call loses its conditional write,
\* and a stored task in state done is never written again.
C4_FinalizedOnce ==
    /\ [](/\ \A c \in TCalls :
               /\ tcalls[c].pc \in {"error", "outputs", "write"}
                     => tcalls[c].record.value.state = "dispatched"
               /\ TaskSucceeded(c) =>
                     /\ taskRec.state = "done" /\ taskRec.by = c
                     /\ tcalls[c].record.value.state = "dispatched"
               /\ (tcalls[c].pc = "done" /\ tcalls[c].record.etag # taskEtag
                     /\ tcalls[c].err \notin {"fetch", "alreadydone"})
                     => (tcalls[c].err = "conflict" \/ taskRec.by = c)
          /\ \A c, d \in TCalls :
               (c # d /\ TaskSucceeded(c)) => ~TaskSucceeded(d))
    /\ [][taskRec.state = "done" =>
              (taskRec' = taskRec /\ taskEtag' = taskEtag)]_vars

C4_Witness ==
    \E c, d \in TCalls :
        /\ c # d
        /\ TaskSucceeded(c) /\ taskRec.by = c
        /\ tcalls[d].pc = "done" /\ tcalls[d].err = "conflict"
        /\ tcalls[d].record.etag = tcalls[c].record.etag

\* C5: a taskDone call started after another call completed successfully
\* fails with "task is already done" and creates no error record and no
\* taskoutput record.
C5_SecondCallFails ==
    \A c \in TCalls :
        tcalls[c].afterDone =>
            /\ Created(c) = 0
            /\ tcalls[c].pc \in {"fetch", "done"}
            /\ tcalls[c].pc = "done" => tcalls[c].err = "alreadydone"

C5_Witness ==
    \E c, d \in TCalls :
        /\ TaskSucceeded(d) /\ Created(d) = MaxOut
        /\ tcalls[c].afterDone /\ tcalls[c].pc = "done"
        /\ tcalls[c].nout = Some(1)
        /\ tcalls[c].err = "alreadydone"

NoChildren == \A b \in Buckets : children[b] = 0

\* C6: the job record is deleted only after every child bucket returned a
\* count below the limit, and (nothing inserting) the job record is never
\* gone while a child record of the job remains, in any state of any run,
\* interrupted runs included.
C6_ParentOutlivesChildren ==
    /\ ~jobPresent => NoChildren
    /\ \A d \in Dels :
          (dels[d].pc = "delobj" => dels[d].requests = {} /\ NoChildren)
          /\ (dels[d].result \in {"ok", "notfound"} => NoChildren)

C6_Witness ==
    \E d, e \in Dels :
        /\ dels[d].pc = "crashed" /\ dels[d].rounds = 2
        /\ dels[e].result = "ok" /\ dels[e].rounds >= 2
        /\ ~jobPresent

\* C7: a jobDelete run that ends without a store failure, be it the first
\* run, a second run after a completed one, or a run resuming an interrupted
\* one, ends with no child record of the job and no job record.
C7_DeleteIdempotent ==
    \A d \in Dels :
        (dels[d].pc = "done" /\ dels[d].result \in {"ok", "notfound"})
        => ~jobPresent /\ NoChildren

C7_Witness ==
    \E d, e \in Dels :
        /\ dels[d].pc = "crashed" /\ dels[d].rounds >= 1
        /\ dels[e].pc = "done" /\ dels[e].result = "ok" /\ dels[e].rounds >= 2
        /\ ~jobPresent /\ NoChildren

(***************************************************************************)
(* The task execution driver                                               *)
(***************************************************************************)

InFlight(kind) == {r \in reqs : r.kind = kind}

\* C8: the driver processes one task at a time.  At most one task long-poll
\* of mazTaskFetch is outstanding; while it is, no pipeline runs, no report
\* is outstanding, every task received so far has been reported, and all
\* task-local state (mazPipeline, mazCurrentTask, mazExecutor,
\* mazExecutorResult, mazErrorSave) is unset, so the assertions at task
\* receipt never fail, batch commits and next-batch polls of a reduce task
\* in progress included.
C8_OneTaskAtATime ==
    /\ crashWhy # "fetch precondition"
    /\ Cardinality(InFlight("fetch")) <= 1
    /\ InFlight("fetch") # {} =>
          /\ FetchPrecondition
          /\ InFlight("report") = {}
          /\ \A t \in 1..received : reports[t] = 1

\* The second task is received while a batch commit or a next-batch poll of
\* the first, a reduce task, is still outstanding.
C8_Witness ==
    /\ proc = "running"
    /\ received = 2
    /\ mazCurrentTask # Undefined /\ Val(mazCurrentTask).taskId = 2
    /\ \E r \in reqs : r.kind \in {"commit", "poll"} /\ r.task = 1

\* C9: every received task gets exactly one final report (commit or fail)
\* as soon as its pipeline has completed, whatever the outcome, and before
\* the next task is fetched: a task has no report while its pipeline runs
\* and exactly one from then on, and no fetch is outstanding together with
\* a report.
C9_ExactlyOneReport ==
    /\ \A t \in TaskIds :
          reports[t] = IF t < received \/ (t = received /\ mazPipeline = Undefined)
                       THEN 1 ELSE 0
    /\ \A r \in InFlight("report") :
          /\ r.task = received
          /\ InFlight("fetch") = {}
          /\ r.arg.uri \in {"commit", "fail"}

\* The second task's pipeline failed in its cleanup stage and its failure
\* is being reported, after the first task was reported.
C9_Witness ==
    /\ proc = "running"
    /\ reports[1] = 1 /\ reports[2] = 1
    /\ mazExecutor = Undefined
    /\ \E r \in reqs : r.kind = "report" /\ r.task = 2 /\ r.arg.uri = "fail"

Later(key, other) == other[1] = key[1] /\ other[2] > key[2]

\* C10 as stated: a batch of three keys that is not the last gets, once its
\* drain was handled, exactly one commit {key: first, nkeys: 3} and, the
\* commit acknowledged, exactly one long-poll; a task whose poll returned the
\* last batch with no keys gets no further batch.
C10_AsStated ==
    \A key \in DOMAIN batches :
       LET b == batches[key] IN
       /\ (Len(b.keys) = MaxBatch /\ ~b.done /\ b.drains > 0) =>
             /\ b.commits = 1
             /\ b.arg = Some([key |-> b.keys[1], nkeys |-> MaxBatch])
             /\ b.acked => b.polls = 1
       /\ (b.keys = <<>> /\ b.done /\ key[2] > 1) =>
             /\ b.polls = 0
             /\ \A other \in DOMAIN batches : ~Later(key, other)

\* C10: reduce backpressure.  Each handled drain of a batch sends one commit
\* {key: first key, nkeys: number of keys}, and never for an empty batch.
\* The acknowledged commit of a batch that is not the last issues exactly
\* one long-poll if a task is current at that moment and none if the task
\* has been reported by then; the last batch issues none, so the poll that
\* returned taskInputDone with no keys is followed by no poll of that batch.
C10_Backpressure ==
    \A key \in DOMAIN batches :
       LET b == batches[key] IN
       /\ b.commits = b.drains /\ b.commits <= 1
       /\ b.commits > 0 =>
             /\ b.keys # <<>>
             /\ b.arg = Some([key |-> b.keys[1], nkeys |-> Len(b.keys)])
       /\ b.polls = IF b.acked /\ ~b.done /\ b.currentAtAck THEN 1 ELSE 0
       /\ b.keys = <<>> => b.commits = 0 /\ b.polls = 0

\* The batch [a, b, c] was committed once and polled once, and the poll
\* returned the last batch, with no keys, which was fed to the stream.
C10_Witness ==
    /\ proc = "running"
    /\ \E t \in TaskIds :
          /\ <<t, 1>> \in DOMAIN batches /\ <<t, 2>> \in DOMAIN batches
          /\ Len(batches[<<t, 1>>].keys) = MaxBatch
          /\ ~batches[<<t, 1>>].done
          /\ batches[<<t, 1>>].commits = 1
          /\ batches[<<t, 1>>].arg = Some([key |-> 1, nkeys |-> MaxBatch])
          /\ batches[<<t, 1>>].polls = 1
          /\ batches[<<t, 2>>].keys = <<>> /\ batches[<<t, 2>>].done
          /\ mazExecutor # Undefined /\ Val(mazExecutor).ended
          /\ InFlight("poll") = {}

\* C11 as stated: at most one next-batch long-poll is outstanding; the batch
\* that issued an outstanding poll was drained, its commit was acknowledged
\* and it is not marked taskInputDone.
C11_SinglePoll ==
    /\ Cardinality(InFlight("poll")) <= 1
    /\ \A r \in InFlight("poll") :
          LET b == batches[<<r.task, r.seq>>] IN
          b.drains > 0 /\ b.acked /\ ~b.done

\* The responses the specification has retried: a transport error, a 5xx, a
\* 410, and a status below 400 that is not the expected one.
Retried(status, expected) ==
    \/ status = 0
    \/ status >= 500
    \/ status = 410
    \/ status < 400 /\ status # expected /\ expected # 0

\* C12: mazParentRequest calls back exactly once, and only for the response
\* that ends the request: without error for the expected status, with the
\* error for the first 4xx other than 410.  Every response before that one
\* was a transport error, a 5xx, a 410 or an unexpected non-4xx status; none
\* of those produced a callback, and after each of them the request waits
\* for the retry timer or has been made again, however many there were.
C12_RetryUntilAnswered ==
    LET n == Len(preq.seen)
        last == preq.seen[n]
    IN /\ Len(preq.callbacks) = IF preq.pc = "done" THEN 1 ELSE 0
       /\ \A i \in 1..n : i < n => Retried(preq.seen[i], preq.expected)
       /\ preq.pc = "done" =>
             /\ ~Retried(last, preq.expected)
             /\ preq.callbacks[1] =
                   IF last >= 400 /\ last < 500 THEN "error" ELSE "ok"
       /\ (n > 0 /\ Retried(last, preq.expected)) =>
             /\ preq.pc \in {"wait", "sent"}
             /\ preq.sends = IF preq.pc = "wait" THEN n ELSE n + 1
       /\ preq.pc = "sent" => preq.sends = n + 1

\* A request expecting 204 got a transport error, then a 410, and on its
\* third send a 409, with which it called back.
C12_Witness ==
    /\ preq.expected = 204
    /\ preq.seen = <<0, 410, 409>>
    /\ preq.callbacks = <<"error">>

\* The last report request has been answered and is not made again.
ReportAnswered == InFlight("report") # {} /\ InFlight("report")' = {}

\* C13: a final report answered with 409 is neither retried nor fatal: as
\* after a 204, the driver goes on running, mazCurrentTask, mazExecutor,
\* mazExecutorResult and mazErrorSave are unset, and the next task fetch is
\* outstanding.
C13_ConflictTolerated ==
    [][(ReportAnswered /\ agent'.answered \in {204, 409}) =>
          /\ proc' = "running" /\ crashWhy' = crashWhy
          /\ mazCurrentTask' = Undefined
          /\ mazExecutor' = Undefined
          /\ mazExecutorResult' = Undefined
          /\ mazErrorSave' = Undefined
          /\ InFlight("fetch")' = {FetchRequest(received)}]_vars

\* The first task's report was answered with 409 and the driver is fetching.
C13_Witness ==
    /\ agent.answered = 409
    /\ proc = "running"
    /\ received = 1
    /\ mazCurrentTask = Undefined
    /\ InFlight("fetch") # {} /\ InFlight("report") = {}

\* C14 as stated: a 4xx other than 409 and 410 is fatal for every call to
\* the parent agent: after such an answer to a task fetch, a batch commit or
\* a next-batch poll the process is over, and so it is after such an answer
\* to the final report.
C14_ClientErrorFatal ==
    /\ crashWhy \in {"fetch error", "commit error", "poll error"} =>
          proc # "running"
    /\ (agent.answered >= 400 /\ agent.answered < 500
          /\ agent.answered \notin {409, 410}) => proc # "running"

\* C15 as stated: at most one liveness heartbeat request is in flight at any
\* time.
C15_OneHeartbeat ==
    Cardinality({i \in Ticks : liveReqs[i] = "sent"}) <= 1

\* The five conditions of the reporting priority, in order; the last four
\* are read from the executor's result, which a pipeline error may precede.
Conditions(in) ==
    <<in.pipelineError,
      in.result # Undefined /\ Val(in.result).error,
      in.result # Undefined /\ Val(in.result).core,
      in.result # Undefined /\ Val(in.result).signal # "null",
      in.result # Undefined /\ Val(in.result).code # 0>>

\* The first condition that holds, 6 if none does.
FirstOf(c) ==
    IF \E i \in 1..5 : c[i]
    THEN CHOOSE i \in 1..5 : c[i] /\ \A j \in 1..(i - 1) : ~c[j]
    ELSE 6

\* C16: the reported outcome follows the priority pipeline error, executor
\* error, core dump, signal, non-zero exit code: the first condition that
\* holds decides the message (so a result with a signal and a non-zero exit
\* code is reported with the signal, not the code), and commit is posted
\* exactly when none of the five holds, fail otherwise.
C16_DecodePriority ==
    decOut # Undefined =>
       LET first == FirstOf(Conditions(decIn))
           out == Val(decOut)
       IN /\ out.uri = IF first = 6 THEN "commit" ELSE "fail"
          /\ out.error.message =
                <<"internal error", "internal error",
                  "user command or child process dumped core",
                  "user command terminated by",
                  "user command exited with code", "null">>[first]
          /\ first = 4 => out.error.detail = Val(decIn.result).signal
          /\ first = 5 => out.error.detail = ToString(Val(decIn.result).code)

\* A result with signal SIGKILL and exit code 1 was reported as terminated
\* by SIGKILL.
C16_Witness ==
    /\ decIn = [pipelineError |-> FALSE,
                result |-> Some([error |-> FALSE, core |-> FALSE,
                                 signal |-> "SIGKILL", code |-> 1])]
    /\ decOut = Some([uri |-> "fail",
                      error |-> [message |-> "user command terminated by",
                                 detail |-> "SIGKILL"]])

\* No condition of the reporting priority holds for the current task.
NoHarderError ==
    /\ mazExecutorResult # Undefined
    /\ MazDecodeError(FALSE, mazExecutorResult) = NoDecodedError

\* C17 as stated: when a capture step of the task failed and no harder error
\* occurred, the task's report is a fail whose cause is the first capture
\* error of the task.
C17_CaptureErrorReported ==
    \A r \in InFlight("report") :
       (mazErrorSave # Undefined /\ NoHarderError) =>
          /\ r.arg.uri = "fail"
          /\ r.arg.error.detail = Val(mazErrorSave)

(***************************************************************************)
(* jobFetchLog                                                             *)
(***************************************************************************)

\* C18: fetchLog emits "end" at most once, and has emitted it exactly when
\* the job query has ended and the task query has ended with a page shorter
\* than the limit, in whichever order the two ended and however often the
\* task query was issued again; no "end" is emitted while a query is
\* outstanding, and the pending count is the number of outstanding queries,
\* never below zero.
C18_EndOnce ==
    LET jobOut == IF ml_req_job \in {"open", "recorded", "failed"} THEN 1 ELSE 0
        taskOut == IF ml_req_tasks # Undefined
                      /\ Val(ml_req_tasks).state \in {"open", "failed"}
                   THEN 1 ELSE 0
        tasksEnded == ml_req_tasks # Undefined
                         /\ Val(ml_req_tasks).state = "ended"
    IN /\ logEvents.ends <= 1
       /\ ~logEvents.asserted
       /\ ml_npending >= 0
       /\ ml_npending = jobOut + taskOut
       /\ logEvents.ends = 1 <=> (ml_req_job = "ended" /\ tasksEnded)
       /\ tasksEnded => ml_ntasks < PageLimit

\* "end" was emitted after the job query ended first and the task query was
\* issued three times, two pages having hit the limit.
C18_Witness ==
    /\ logEvents.ends = 1
    /\ logEvents.pages = MaxPages
    /\ logEvents.errors = 0
    /\ ml_npending = 0

\* C19 as stated: each further task query makes progress past the records
\* already returned, so no task record is returned twice, and a job with at
\* least a page of task records is paged to its end.
C19_RepageProgress ==
    \A id \in LogRecs : logEvents.emitted[id] <= 1

(***************************************************************************)
(* jobEndInput                                                             *)
(***************************************************************************)

\* The finished jobEndInput calls.
EndInputDone ==
    {c \in Calls : calls[c].pc = "done" /\ calls[c].op = "jobEndInput"}

\* C20: a jobEndInput call fails with the error of its mutation function
\* (the invalid-state error) iff the stored job record has "input" set,
\* whatever its other fields hold; a call that fails this way has issued no
\* putObject, so it has neither written the record nor changed its etag.
C20_EndInputPiped ==
    \A c \in EndInputDone :
        /\ calls[c].err = "update" <=> (jobExists /\ jobVal.input)
        /\ calls[c].err = "update" =>
              /\ calls[c].puts = 0
              /\ calls[c].rec = Undefined
              /\ \A w \in writes : w.by[1] # c
              /\ \A l \in lost : l[1] # c
              /\ jobVal.timeInputDone = Unset

\* A jobEndInput call has failed on a piped job that another call has
\* cancelled in the meantime, after its attempts were all made.
C20_Witness ==
    \E c \in EndInputDone :
        /\ calls[c].err = "update"
        /\ calls[c].attempt = MaxRetries + 1
        /\ jobVal.timeCancelled # Unset
        /\ jobEtag > 0

(***************************************************************************)
(* jobCreate and the lifecycle timestamps                                  *)
(***************************************************************************)

\* C21: once the stored job record has timeInputDone or timeCancelled set,
\* every later stored version of it still has that field set, under any
\* interleaving of jobCreate (with the job's id), jobCancel, jobEndInput,
\* jobArchiveStart, jobArchiveHeartbeat and jobArchiveDone.
C21_NeverCleared ==
    [][/\ (jobExists /\ jobVal.timeCancelled # Unset)
              => (jobExists' /\ jobVal'.timeCancelled # Unset)
       /\ (jobExists /\ jobVal.timeInputDone # Unset)
              => (jobExists' /\ jobVal'.timeInputDone # Unset)]_vars

\* C22: no stored job record has both "input" and timeInputDone set.
C22_PipedNeverInputDone ==
    jobExists => ~(jobVal.input /\ jobVal.timeInputDone # Unset)

\* A job whose input was ended has been created again as a piped job, and a
\* jobEndInput call that read the earlier record has then lost its write.
C22_Witness ==
    /\ jobExists /\ jobVal.input /\ creates > 0
    /\ \E c \in Calls :
          /\ calls[c].op = "jobEndInput"
          /\ calls[c].put = "conflict"
          /\ ~calls[c].job.value.input

(***************************************************************************)
(* Re-issued jobCancel / jobEndInput, and the record called back           *)
(***************************************************************************)

\* The read-modify-write calls whose putObject is answered in this step.
PutAnswered(ops) ==
    {c \in Calls : /\ calls[c].op \in ops
                   /\ calls[c].pc = "put"
                   /\ calls'[c] # calls[c]}

\* The field that marks the terminal condition an operation sets.
Terminal(op, v) ==
    IF op = "jobCancel" THEN v.timeCancelled # Unset
    ELSE v.timeInputDone # Unset

\* C23: when jobCancel (jobEndInput) is issued again on a job it read as
\* already cancelled (input-done), its write leaves the stored record
\* cancelled (input-done) or leaves it untouched; and when the record's etag
\* changed between the attempt's read and its write, the store is not
\* written and the call retries or ends with the conflict error, never with
\* success.
C23_ReissueConflict ==
    [][\A c \in PutAnswered({"jobCancel", "jobEndInput"}) :
          /\ Terminal(calls[c].op, calls[c].job.value)
                => \/ Terminal(calls[c].op, jobVal')
                   \/ jobVal' = jobVal /\ jobEtag' = jobEtag
          /\ calls[c].job.etag # jobEtag
                => /\ jobVal' = jobVal /\ jobEtag' = jobEtag
                   /\ \/ calls'[c].pc = "get"
                      \/ calls'[c].pc = "done" /\ calls'[c].err = "conflict"
          /\ (calls'[c].pc = "done" /\ calls'[c].err = "none")
                => calls[c].job.etag = jobEtag]_vars

\* A jobCancel that read an already cancelled record has ended with the
\* conflict error, the etag having changed before its write.
C23_Witness ==
    \E c \in Calls :
        /\ calls[c].op = "jobCancel"
        /\ calls[c].job.value.timeCancelled # Unset
        /\ calls[c].pc = "done" /\ calls[c].err = "conflict"
        /\ calls[c].job.etag # jobEtag

\* C24: a successful call of any of the five operations calls back with the
\* record as read in the attempt that wrote, which is the stored record just
\* before its own write, and not the value it wrote.
C24_PreviousRecord ==
    [][\A c \in PutAnswered(JobOps) :
          (calls'[c].pc = "done" /\ calls'[c].err = "none")
          => /\ calls'[c].rec = Some([value |-> jobVal, etag |-> jobEtag])
             /\ calls'[c].rec = Some(calls'[c].job)
             /\ calls[c].op # "jobArchiveHeartbeat"
                   => Val(calls'[c].rec).value # jobVal']_vars

\* A call succeeded on its second attempt and was given the record of that
\* attempt, which another call had written after the first attempt's read.
C24_Witness ==
    \E c \in Calls :
        /\ Succeeded(c) /\ calls[c].attempt = 2
        /\ Val(calls[c].rec).etag > 0
        /\ StampsIn(Val(calls[c].rec).value) # {}
        /\ Stamp(c) \notin StampsIn(Val(calls[c].rec).value)

(***************************************************************************)
(* jobDelete: failure and termination                                      *)
(***************************************************************************)

\* C25: when a batch request of a jobDelete run fails, the run calls back
\* once with the error, and from then on it sends no batch request, deletes
\* nothing and leaves the job record in place.
C25_FailFast ==
    [][\A d \in Dels :
          /\ (dels[d].pc = "batch" /\ dels'[d].result = "error")
                => /\ dels'[d].pc = "done"
                   /\ dels'[d].callbacks = 1 /\ dels'[d].callback_invoked
                   /\ dels'[d].rounds = dels[d].rounds
                   /\ jobPresent' = jobPresent /\ children' = children
          /\ dels[d].result = "error" => dels'[d] = dels[d]]_vars

\* A run failed after its first batch had deleted records, while records and
\* the job record remain, and no other run was started.
C25_Witness ==
    \E d \in Dels :
        /\ dels[d].result = "error" /\ dels[d].rounds >= 1
        /\ dels[d].callbacks = 1
        /\ jobPresent /\ ~NoChildren
        /\ \A e \in Dels \ {d} : dels[e].pc = "idle"

\* C26: with the store answering every request without error and nothing
\* inserting, a jobDelete run sends at most MaxRecs + 1 batch requests and
\* then ends: the job record is gone, no child record remains, and the
\* callback has been called exactly once.
C26_DeleteTerminates ==
    /\ [](\A d \in Dels : dels[d].rounds <= MaxRecs + 1 /\ dels[d].callbacks <= 1)
    /\ \A d \in Dels :
          (dels[d].pc = "batch")
             ~> (/\ dels[d].pc = "done" /\ dels[d].callbacks = 1
                 /\ dels[d].result \in {"ok", "notfound"}
                 /\ ~jobPresent /\ NoChildren)

\* A run with page limit 1 needed MaxRecs + 1 batch requests.
C26_Witness ==
    \E d \in Dels :
        /\ dels[d].pc = "done" /\ dels[d].result = "ok"
        /\ dels[d].rounds = MaxRecs + 1 /\ dels[d].callbacks = 1
        /\ ~jobPresent

(***************************************************************************)
(* taskDone: the records written                                           *)
(***************************************************************************)

\* The records a taskDone call with output count nout is to create.
ErrorsDue(nout) == IF nout = Undefined THEN 1 ELSE 0
OutputsDue(nout) == IF nout = Undefined THEN 0 ELSE Val(nout)

\* C27: a taskDone call never creates more than one error record when no
\* output count was given, nor more than nout taskoutput records otherwise,
\* and none of the other kind; when it goes on to write the task, and when
\* it has succeeded, it has created exactly those records (none for nout 0),
\* and the stored task is done with result "fail" and no nOutputs when no
\* count was given, and result "ok" with nOutputs = nout otherwise.
C27_RecordsWritten ==
    \A c \in TCalls :
        /\ errorRecs[c] <= ErrorsDue(tcalls[c].nout)
        /\ outputRecs[c] <= OutputsDue(tcalls[c].nout)
        /\ (tcalls[c].pc = "write" \/ TaskSucceeded(c)) =>
              /\ errorRecs[c] = ErrorsDue(tcalls[c].nout)
              /\ outputRecs[c] = OutputsDue(tcalls[c].nout)
        /\ TaskSucceeded(c) =>
              /\ taskRec.state = "done" /\ taskRec.by = c
              /\ taskRec.nOutputs = tcalls[c].nout
              /\ taskRec.result =
                    (IF tcalls[c].nout = Undefined THEN "fail" ELSE "ok")

\* A call without an output count has succeeded after writing its one error
\* record, and a call with nout = MaxOut has written its MaxOut taskoutput
\* records and is about to write the task.
C27_Witness ==
    \E c, d \in TCalls :
        /\ TaskSucceeded(c) /\ tcalls[c].nout = Undefined
        /\ errorRecs[c] = 1 /\ taskRec.result = "fail"
        /\ tcalls[d].pc = "write" /\ tcalls[d].nout = Some(MaxOut)
        /\ outputRecs[d] = MaxOut

(***************************************************************************)
(* jobsList                                                                *)
(***************************************************************************)

\* The options whose value is a string with a character other than a
\* digit, a word character or "-".
BadKeys ==
    {k \in TokenKeys : /\ lstIn[k].t = "string"
                       /\ \E i \in 1..Len(lstIn[k].s) : lstIn[k].s[i] \in OtherChars}

\* C28: jobsList called with a name, owner, jobId, worker or wrasse value
\* that does not match ^[\d\w-]+$ issues the query that the same call
\* without that option issues (the all-jobs query when no other filter
\* applies), and the value appears in no clause of the filter.
C28_InvalidIgnored ==
    lstOut # Undefined =>
        \A k \in BadKeys :
            /\ Val(lstOut) = JobsListQuery([lstIn EXCEPT ![k] = Absent])
            /\ \A i \in 1..Len(Val(lstOut).clauses) :
                  Val(lstOut).clauses[i].val # lstIn[k]
            /\ (\A j \in DOMAIN lstIn \ {k} : lstIn[j] = Absent)
                  => Val(lstOut) = [head |-> "(jobId=*", clauses |-> <<>>]

\* jobsList was called with owner "b;" and nothing else and issued the
\* all-jobs query.
C28_Witness ==
    /\ lstOut = Some([head |-> "(jobId=*", clauses |-> <<>>])
    /\ lstIn.owner = Str(<<"b", ";">>)
    /\ BadKeys = {"owner"}
    /\ \A j \in DOMAIN lstIn \ {"owner"} : lstIn[j] = Absent

(***************************************************************************)
(* The task pipeline's stages                                              *)
(***************************************************************************)

StageRank(s) ==
    CASE s = "cleanup" -> 1 [] s = "spawn" -> 2 [] s = "stdout" -> 3
      [] OTHER -> 4

\* The step issues the task's final report.
Reporting == reports' # reports

\* Every capture stage has had its turn when the pipeline ends from stage s:
\* stdout was captured or the user had emitted output, and stderr was
\* captured or the exit code was 0.
CapturesHadTheirTurn(s) ==
    /\ mazExecutorResult' # Undefined
    /\ s = "spawn" => mazUserEmitted
    /\ s \in {"spawn", "stdout"} => SkipStderr(mazExecutorResult')

\* C29: a task's pipeline starts in the cleanup stage and moves on only
\* forward: from cleanup to spawn, from spawn (only with the executor's
\* result delivered) to a capture stage or the end, stdout before stderr;
\* and the final report is issued only in the step that ends the pipeline,
\* after the last stage or from the cleanup stage when it failed.
C29_StagesInOrder ==
    [][/\ (mazPipeline = Undefined /\ mazPipeline' # Undefined)
             => Val(mazPipeline').stage = "cleanup"
       /\ (mazPipeline # Undefined /\ mazPipeline' # Undefined
             /\ mazPipeline' # mazPipeline)
             => /\ Val(mazPipeline').task = Val(mazPipeline).task
                /\ StageRank(Val(mazPipeline').stage)
                      > StageRank(Val(mazPipeline).stage)
                /\ Val(mazPipeline).stage = "cleanup"
                      => Val(mazPipeline').stage = "spawn"
                /\ Val(mazPipeline).stage = "spawn"
                      => mazExecutorResult' # Undefined
       /\ Reporting
             => /\ mazPipeline # Undefined /\ mazPipeline' = Undefined
                /\ \/ Val(mazPipeline).stage = "cleanup"
                   \/ CapturesHadTheirTurn(Val(mazPipeline).stage)]_vars

\* A task went through all four stages: stdout was captured, the capture of
\* stderr failed, and the task is being reported.
C29_Witness ==
    /\ mazPipeline = Undefined
    /\ InFlight("report") # {}
    /\ ~mazUserEmitted
    /\ mazErrorSave = Some("stderr")
    /\ mazExecutorResult # Undefined /\ Val(mazExecutorResult).code # 0

\* C30 as stated: the capture stages have their turn for every task,
\* whatever the outcome of an earlier stage: no final report is issued
\* before them, and no stage's failure ends the pipeline ahead of them.
C30_CapturesAlwaysRun ==
    [][Reporting => /\ mazPipeline # Undefined
                    /\ CapturesHadTheirTurn(Val(mazPipeline).stage)]_vars

(***************************************************************************)
(* Capture of stdout and stderr                                            *)
(***************************************************************************)

\* The stage the pipeline is in after the step ("end": it has completed).
StageAfter == IF mazPipeline' = Undefined THEN "end" ELSE Val(mazPipeline').stage

\* The step in which stage s of the running pipeline calls back.
Leaving(s) ==
    /\ mazPipeline # Undefined /\ Val(mazPipeline).stage = s
    /\ mazPipeline' # mazPipeline
    /\ proc' = "running"

\* C31: mazUserEmitted is false when a task is received, becomes true only
\* without a task being received in the same step (by a marker PUT), and is
\* reset only by the receipt of a task; stdout is captured iff the flag is
\* false when the spawn stage calls back, and stderr is captured iff the
\* exit code recorded in the executor's result is not 0.
C31_CaptureSkipped ==
    [][/\ received' # received => ~mazUserEmitted'
       /\ (mazUserEmitted /\ ~mazUserEmitted') => received' # received
       /\ Leaving("spawn") => (StageAfter = "stdout" <=> ~mazUserEmitted)
       /\ (Leaving("stdout") \/ (Leaving("spawn") /\ mazUserEmitted))
             => (StageAfter = "stderr"
                   <=> Val(mazExecutorResult').code # 0)]_vars

\* The second task received is capturing its stdout, no marker PUT having
\* arrived since its receipt, after a command that exited with code 0.
C31_Witness ==
    /\ received = 2
    /\ InStage({"stdout"})
    /\ ~mazUserEmitted
    /\ Val(mazExecutorResult).code = 0

(***************************************************************************)
(* Drain signals                                                           *)
(***************************************************************************)

\* The step delivers the input stream's drain signal to mazDoneBatch.
DrainDelivered ==
    /\ mazExecutor # Undefined /\ Val(mazExecutor).drainDue
    /\ mazExecutor' = Some([Val(mazExecutor) EXCEPT !.drainDue = FALSE])

\* C32: a drain signal whose batch has no key, or that is delivered while
\* the executor's result is recorded, adds no request to the parent agent:
\* no commit and no next-batch poll.
C32_DrainIgnored ==
    [][(/\ DrainDelivered
        /\ \/ Len(Val(Val(mazExecutor).batch).taskInputKeys) = 0
           \/ mazExecutorResult # Undefined)
       => /\ reqs' = reqs
          /\ batches' = batches]_vars

\* The drain of a reduce task's batch with keys was delivered after the
\* command had ended and was ignored: the batch has no commit.
C32_Witness ==
    /\ Executing({"done"}) /\ mazExecutorResult # Undefined
    /\ Val(mazExecutor).reduce
    /\ Val(mazExecutor).batch # Undefined
    /\ Val(mazExecutor).queue = 0 /\ ~Val(mazExecutor).drainDue
    /\ LET b == Val(Val(mazExecutor).batch) IN
          /\ Len(b.taskInputKeys) > 0
          /\ batches[<<b.task, b.seq>>].commits = 0
          /\ batches[<<b.task, b.seq>>].drains = 0

(***************************************************************************)
(* The next-batch long-poll's response                                     *)
(***************************************************************************)

\* C33 as stated: whenever the response to a next-batch poll is handled,
\* mazCurrentTask is set and is the task the response is for, and that
\* task's executor with its input stream is there to take the keys: the
\* handler never throws on cleared state, on the taskId assertion or on a
\* missing executor.
C33_PollSameTask ==
    crashWhy \notin {"poll: no current task", "poll: other task",
                     "poll: no input stream"}

(***************************************************************************)
(* jobDelete: the buckets of the next batch                                *)
(***************************************************************************)

\* The runs whose batch request is answered without error in this step.
BatchAnswered ==
    {d \in Dels : dels[d].pc = "batch" /\ dels'[d].rounds = dels[d].rounds + 1}

\* C34: after each batch round of a jobDelete run, the buckets kept for the
\* next request are those of this round's request whose delete count
\* equalled the limit; a bucket below the limit is dropped, so a dropped
\* bucket is never requested again; and another batch is sent iff a bucket
\* hit the limit, the job record being deleted otherwise.
C34_BucketsKept ==
    [][\A d \in BatchAnswered :
          /\ dels'[d].requests =
                {b \in dels[d].requests :
                    children[b] - children'[b] = dels[d].limit}
          /\ \A b \in Buckets \ dels[d].requests : children'[b] = children[b]
          /\ dels'[d].pc = "batch" <=> dels'[d].requests # {}
          /\ dels'[d].pc = "delobj" <=> dels'[d].requests = {}]_vars

\* After two rounds a run still requests one bucket, which hit the limit
\* twice, and has dropped the others.
C34_Witness ==
    \E d \in Dels :
        /\ dels[d].pc = "batch" /\ dels[d].rounds = 2
        /\ Cardinality(dels[d].requests) = 1

(***************************************************************************)
(* taskDone: a task-output write that fails                                *)
(***************************************************************************)

\* C35 as stated: once a task-output write of a taskDone call has failed,
\* the callback of taskDoneWriteOthers has been called once, with the error,
\* and never without one, and taskDoneWriteTask does not run: the call is
\* not writing the task and the task is not marked done by it.
C35_FailureEndsStage ==
    \A c \in TCalls :
        tcalls[c].done =>
            /\ tcalls[c].callbacks = <<"err">>
            /\ tcalls[c].pc # "write"
            /\ ~(taskRec.state = "done" /\ taskRec.by = c)

(***************************************************************************)
(* jobFetchAndUpdate: what is retried                                      *)
(***************************************************************************)

\* C36 as stated: with a retry policy, jobFetchAndUpdate starts another
\* attempt only after a conditional write that was refused for its etag, so
\* every attempt but the first follows a putObject of the attempt before
\* it: a failed read or an error of updatef ends the call there.
C36_RetryOnConflictOnly ==
    \A c \in Calls :
        calls[c].attempt >= 1 => calls[c].puts >= calls[c].attempt - 1

(***************************************************************************)
(* jobDelete while input keys are added                                    *)
(***************************************************************************)

\* C37 as stated: when a jobDelete run completes successfully, no record
\* with the job's id is left in any child bucket, whatever jobAddKey calls
\* for the job were made while the run was under way.
C37_NoChildLeft ==
    [][\A d \in Dels :
          (dels[d].pc = "delobj" /\ dels'[d].result = "ok")
              => \A b \in Buckets : children'[b] = 0]_vars

(***************************************************************************)
(* taskDone: the records of the call that loses the final write            *)
(***************************************************************************)

\* C38 as stated: of two taskDone calls that both fetched the task before
\* either marked it done, the one whose final write is refused for its etag
\* leaves neither an error record nor a taskoutput record behind.
C38_LoserLeavesNothing ==
    \A c \in TCalls :
        (tcalls[c].pc = "done" /\ tcalls[c].err = "conflict")
            => errorRecs[c] = 0 /\ outputRecs[c] = 0

(***************************************************************************)
(* Liveness heartbeat: requests after the pipeline completed               *)
(***************************************************************************)

\* C39 as stated: once the task's pipeline has completed and the liveness
\* interval is cleared, no liveness request is sent, be it for a new tick or
\* for the retry of a heartbeat that failed.
C39_NoPostAfterStop ==
    [][~mazLivenessTimeout =>
          \A i \in Ticks : liveReqs'[i] = "sent" => liveReqs[i] = "sent"]_vars

====
